---- MODULE Spec2Model ----
(***************************************************************************)
(* Model of llmx (hystking/llm-go): the --format shorthand parser          *)
(* (pkg/parser/format.go), the provider registry (pkg/provider/provider.go)*)
(* the providers' payload builders and the root command's control flow.    *)
(*                                                                         *)
(* Go strings are modelled as sequences of one-character strings, so that  *)
(* Split, TrimSpace, HasSuffix ... are computed as the library computes    *)
(* them.  Fixed literal text that the program only ever concatenates       *)
(* (prompt boilerplate, messages) is kept as one multi-character element.  *)
(***************************************************************************)
EXTENDS Integers, Sequences, FiniteSets, TLC

(***************************************************************************)
(* Bounds                                                                  *)
(***************************************************************************)
\* number of comma separated pairs in an enumerated --format string
MaxPairs == 2

\* items, candidates and choices of an enumerated response body
MaxItems == 2

\* content blocks of an item, parts of a candidate
MaxBlocks == 2

(***************************************************************************)
(* Go strings package                                                      *)
(***************************************************************************)
\* unicode.IsSpace restricted to the characters the model uses
IsSpace(c) == c \in {" ", "\t", "\n"}

RECURSIVE TrimLeft(_)
TrimLeft(s) ==
  IF s # <<>> /\ IsSpace(Head(s)) THEN TrimLeft(Tail(s)) ELSE s

RECURSIVE TrimRight(_)
TrimRight(s) ==
  IF s # <<>> /\ IsSpace(s[Len(s)]) THEN TrimRight(SubSeq(s, 1, Len(s) - 1)) ELSE s

\* strings.TrimSpace
TrimSpace(s) == TrimRight(TrimLeft(s))

\* strings.HasSuffix
HasSuffix(s, suf) ==
  /\ Len(s) >= Len(suf)
  /\ SubSeq(s, Len(s) - Len(suf) + 1, Len(s)) = suf

\* strings.TrimSuffix
TrimSuffix(s, suf) ==
  IF HasSuffix(s, suf) THEN SubSeq(s, 1, Len(s) - Len(suf)) ELSE s

\* strings.Contains for a one-character separator
Contains(s, c) == \E i \in 1..Len(s) : s[i] = c

\* strings.Index for a one-character separator (0 when absent, 1-based)
Index(s, c) ==
  IF Contains(s, c)
  THEN CHOOSE i \in 1..Len(s) : s[i] = c /\ \A j \in 1..(i - 1) : s[j] # c
  ELSE 0

\* strings.Split(s, sep) for a one-character separator
RECURSIVE Split(_, _)
Split(s, sep) ==
  IF ~Contains(s, sep) THEN <<s>>
  ELSE LET i == Index(s, sep)
       IN <<SubSeq(s, 1, i - 1)>> \o Split(SubSeq(s, i + 1, Len(s)), sep)

\* strings.SplitN(s, sep, 2)
SplitN2(s, sep) ==
  IF ~Contains(s, sep) THEN <<s>>
  ELSE LET i == Index(s, sep)
       IN <<SubSeq(s, 1, i - 1), SubSeq(s, i + 1, Len(s))>>

\* strings.Join
RECURSIVE Join(_, _)
Join(parts, sep) ==
  IF parts = <<>> THEN <<>>
  ELSE IF Len(parts) = 1 THEN parts[1]
  ELSE parts[1] \o sep \o Join(Tail(parts), sep)

\* bytes of the strings the model uses, in ascending byte order
AsciiOrder ==
  << "\t", "\n", " ", "-", ".", "0", "1", "2", "3", "4", "5", "6", "7", "8", "9", ":",
     "A", "B", "C", "D", "E", "F", "G", "H", "I", "J", "K", "L", "M",
     "N", "O", "P", "Q", "R", "S", "T", "U", "V", "W", "X", "Y", "Z", "[", "]",
     "a", "b", "c", "d", "e", "f", "g", "h", "i", "j", "k", "l", "m",
     "n", "o", "p", "q", "r", "s", "t", "u", "v", "w", "x", "y", "z" >>

Ord(c) == CHOOSE i \in 1..Len(AsciiOrder) : AsciiOrder[i] = c

UpperLetters == {AsciiOrder[i] : i \in 17..42}
LowerLetters == {AsciiOrder[i] : i \in 45..70}

\* unicode.ToUpper / unicode.ToLower of one byte
ToUpperChar(c) == IF c \in LowerLetters THEN AsciiOrder[Ord(c) - 28] ELSE c
ToLowerChar(c) == IF c \in UpperLetters THEN AsciiOrder[Ord(c) + 28] ELSE c

\* strings.ToUpper, strings.ToLower
ToUpper(s) == [i \in 1..Len(s) |-> ToUpperChar(s[i])]
ToLower(s) == [i \in 1..Len(s) |-> ToLowerChar(s[i])]

\* strings.EqualFold
EqualFold(s, t) == ToLower(s) = ToLower(t)

\* strings.Contains for a substring
ContainsStr(s, sub) ==
  \E i \in 0..(Len(s) - Len(sub)) : SubSeq(s, i + 1, i + Len(sub)) = sub

\* s < t for Go strings (bytewise lexicographic)
RECURSIVE StrLess(_, _)
StrLess(s, t) ==
  IF t = <<>> THEN FALSE
  ELSE IF s = <<>> THEN TRUE
  ELSE IF Head(s) # Head(t) THEN Ord(Head(s)) < Ord(Head(t))
  ELSE StrLess(Tail(s), Tail(t))

\* insertion of one string into an ascending list
RECURSIVE SortedInsert(_, _)
SortedInsert(x, sorted) ==
  IF sorted = <<>> THEN <<x>>
  ELSE IF StrLess(Head(sorted), x) THEN <<Head(sorted)>> \o SortedInsert(x, Tail(sorted))
  ELSE <<x>> \o sorted

\* mutant of SortStrings: the keys stay in map iteration order
SortStrings_None(keys) == keys

\* sort.Strings
RECURSIVE SortStrings(_)
SortStrings(keys) ==
  IF keys = <<>> THEN <<>> ELSE SortedInsert(Head(keys), SortStrings(Tail(keys)))

\* the orders in which `for k := range m` can visit the key set S
RangeOrders(S) ==
  {f \in [1..Cardinality(S) -> S] : \A i, j \in 1..Cardinality(S) : i # j => f[i] # f[j]}

\* the elements of a list
Elems(seq) == {seq[i] : i \in 1..Len(seq)}

(***************************************************************************)
(* Literals                                                                *)
(***************************************************************************)
STR_string  == <<"s", "t", "r", "i", "n", "g">>
STR_integer == <<"i", "n", "t", "e", "g", "e", "r">>
STR_array   == <<"a", "r", "r", "a", "y">>
STR_foo     == <<"f", "o", "o">>
STR_message == <<"m", "e", "s", "s", "a", "g", "e">>
STR_error   == <<"e", "r", "r", "o", "r">>
STR_brackets == <<"[", "]">>
STR_object  == <<"o", "b", "j", "e", "c", "t">>
STR_number  == <<"n", "u", "m", "b", "e", "r">>
STR_boolean == <<"b", "o", "o", "l", "e", "a", "n">>
STR_STRING  == <<"S", "T", "R", "I", "N", "G">>
STR_INTEGER == <<"I", "N", "T", "E", "G", "E", "R">>
STR_NUMBER  == <<"N", "U", "M", "B", "E", "R">>
STR_BOOLEAN == <<"B", "O", "O", "L", "E", "A", "N">>
STR_OBJECT  == <<"O", "B", "J", "E", "C", "T">>
STR_ARRAY   == <<"A", "R", "R", "A", "Y">>
STR_openai  == <<"o", "p", "e", "n", "a", "i">>
STR_oa      == <<"o", "a">>
STR_default == <<"d", "e", "f", "a", "u", "l", "t">>
STR_anthropic == <<"a", "n", "t", "h", "r", "o", "p", "i", "c">>
STR_claude  == <<"c", "l", "a", "u", "d", "e">>
STR_anth    == <<"a", "n", "t", "h">>
STR_gemini  == <<"g", "e", "m", "i", "n", "i">>
STR_google  == <<"g", "o", "o", "g", "l", "e">>
STR_gai     == <<"g", "a", "i">>
STR_OpenAI  == <<"O", "p", "e", "n", "A", "I">>
STR_Claude  == <<"C", "l", "a", "u", "d", "e">>
STR_openai_compat == <<"o", "p", "e", "n", "a", "i", "-", "c", "o", "m", "p", "a", "t">>
STR_llama   == <<"l", "l", "a", "m", "a">>
STR_openai_base == <<"h", "t", "t", "p", "s", ":", "/", "/", "a", "p", "i", ".", "o", "p", "e", "n", "a", "i", ".", "c", "o", "m", "/", "v", "1">>
STR_anthropic_base == <<"h", "t", "t", "p", "s", ":", "/", "/", "a", "p", "i", ".", "a", "n", "t", "h", "r", "o", "p", "i", "c", ".", "c", "o", "m", "/", "v", "1">>
STR_gemini_base == <<"h", "t", "t", "p", "s", ":", "/", "/", "g", "e", "n", "e", "r", "a", "t", "i", "v", "e", "l", "a", "n", "g", "u", "a", "g", "e", ".", "g", "o", "o", "g", "l", "e", "a", "p", "i", "s", ".", "c", "o", "m">>
STR_responses == <<"/", "r", "e", "s", "p", "o", "n", "s", "e", "s">>
STR_chat_completions == <<"/", "c", "h", "a", "t", "/", "c", "o", "m", "p", "l", "e", "t", "i", "o", "n", "s">>
STR_messages == <<"/", "m", "e", "s", "s", "a", "g", "e", "s">>
STR_v1beta_models == <<"/", "v", "1", "b", "e", "t", "a", "/", "m", "o", "d", "e", "l", "s", "/">>
STR_generateContent == <<":", "g", "e", "n", "e", "r", "a", "t", "e", "C", "o", "n", "t", "e", "n", "t">>
STR_OPENAI_API_KEY == <<"O", "P", "E", "N", "A", "I", "_", "A", "P", "I", "_", "K", "E", "Y">>
STR_ANTHROPIC_API_KEY == <<"A", "N", "T", "H", "R", "O", "P", "I", "C", "_", "A", "P", "I", "_", "K", "E", "Y">>
STR_GEMINI_API_KEY == <<"G", "E", "M", "I", "N", "I", "_", "A", "P", "I", "_", "K", "E", "Y">>
STR_Bearer == <<"B", "e", "a", "r", "e", "r", " ">>
STR_application_json == <<"a", "p", "p", "l", "i", "c", "a", "t", "i", "o", "n", "/", "j", "s", "o", "n">>
STR_2023_06_01 == <<"2", "0", "2", "3", "-", "0", "6", "-", "0", "1">>
STR_http_h == <<"h", "t", "t", "p", ":", "/", "/", "h">>
STR_http_h_slash == <<"h", "t", "t", "p", ":", "/", "/", "h", "/">>
STR_gpt_4o_mini == <<"g", "p", "t", "-", "4", "o", "-", "m", "i", "n", "i">>
STR_gpt_5_nano == <<"g", "p", "t", "-", "5", "-", "n", "a", "n", "o">>
STR_claude_3_5_haiku_latest == <<"c", "l", "a", "u", "d", "e", "-", "3", "-", "5", "-", "h", "a", "i", "k", "u", "-", "l", "a", "t", "e", "s", "t">>
STR_gemini_2_0_flash == <<"g", "e", "m", "i", "n", "i", "-", "2", ".", "0", "-", "f", "l", "a", "s", "h">>
STR_claude_opus_4_1 == <<"c", "l", "a", "u", "d", "e", "-", "o", "p", "u", "s", "-", "4", "-", "1">>
STR_opus_4_1 == <<"o", "p", "u", "s", "-", "4", "-", "1">>
STR_opus_4 == <<"o", "p", "u", "s", "-", "4">>
STR_sonnet_4_0 == <<"s", "o", "n", "n", "e", "t", "-", "4", "-", "0">>
STR_sonnet_4 == <<"s", "o", "n", "n", "e", "t", "-", "4">>
STR_3_7_sonnet == <<"3", "-", "7", "-", "s", "o", "n", "n", "e", "t">>
STR_3_5_sonnet == <<"3", "-", "5", "-", "s", "o", "n", "n", "e", "t">>
STR_3_5_haiku == <<"3", "-", "5", "-", "h", "a", "i", "k", "u">>
STR_haiku_latest == <<"h", "a", "i", "k", "u", "-", "l", "a", "t", "e", "s", "t">>
STR_3_haiku == <<"3", "-", "h", "a", "i", "k", "u">>

Nil == [msg |-> "nil"]

(***************************************************************************)
(* pkg/parser/format.go                                                    *)
(***************************************************************************)
\* mutant of MapSet: an existing key keeps its first value
MapSet_KeepFirst(m, k, v) ==
  [x \in (DOMAIN m) \cup {k} |-> IF x \in DOMAIN m THEN m[x] ELSE v]

\* properties[key] = value
MapSet(m, k, v) == [x \in (DOMAIN m) \cup {k} |-> IF x = k THEN v ELSE m[x]]

\* map[string]interface{}{"type": typeStr}
ScalarProperty(typeStr) == [type |-> typeStr]

\* map[string]interface{}{"type": "array", "items": {"type": elementType}}
ArrayProperty(elementType) == [type |-> STR_array, items |-> [type |-> elementType]]

\* mutant of PairTypeStr: the type text is taken untrimmed
PairTypeStr_NoTrim(parts) ==
  IF Len(parts) = 2 /\ TrimSpace(parts[2]) # <<>> THEN parts[2] ELSE STR_string

\* the type text of one pair: "string" when omitted or blank
PairTypeStr(parts) ==
  IF Len(parts) = 2 /\ TrimSpace(parts[2]) # <<>> THEN TrimSpace(parts[2]) ELSE STR_string

\* mutant of PairError: the element type is not trimmed before the nested check
PairError_NoTrimElement(pair) ==
  LET trimmed == TrimSpace(pair)
      parts   == SplitN2(trimmed, ":")
      key     == TrimSpace(parts[1])
      typeStr == PairTypeStr(parts)
      elementType == TrimSuffix(typeStr, STR_brackets)
  IN IF trimmed = <<>> THEN [msg |-> "invalid format pair", arg |-> pair]
     ELSE IF Len(parts) = 2 /\ Contains(parts[2], ":")
       THEN [msg |-> "invalid format pair", arg |-> pair]
     ELSE IF key = <<>> THEN [msg |-> "empty key in format pair", arg |-> pair]
     ELSE IF HasSuffix(typeStr, STR_brackets) /\ elementType = <<>>
       THEN [msg |-> "empty element type in array specification", arg |-> typeStr]
     ELSE IF HasSuffix(typeStr, STR_brackets) /\ HasSuffix(elementType, STR_brackets)
       THEN [msg |-> "nested array types are not supported", arg |-> typeStr]
     ELSE Nil

\* one iteration of the loop over pairs: the error it returns, or Nil
PairError(pair) ==
  LET trimmed == TrimSpace(pair)
      parts   == SplitN2(trimmed, ":")
      key     == TrimSpace(parts[1])
      typeStr == PairTypeStr(parts)
      elementType == TrimSpace(TrimSuffix(typeStr, STR_brackets))
  IN IF trimmed = <<>> THEN [msg |-> "invalid format pair", arg |-> pair]
     ELSE IF Len(parts) = 2 /\ Contains(parts[2], ":")
       THEN [msg |-> "invalid format pair", arg |-> pair]
     ELSE IF key = <<>> THEN [msg |-> "empty key in format pair", arg |-> pair]
     ELSE IF HasSuffix(typeStr, STR_brackets) /\ elementType = <<>>
       THEN [msg |-> "empty element type in array specification", arg |-> typeStr]
     ELSE IF HasSuffix(typeStr, STR_brackets) /\ HasSuffix(elementType, STR_brackets)
       THEN [msg |-> "nested array types are not supported", arg |-> typeStr]
     ELSE Nil

\* one iteration of the loop over pairs: the key it assigns
PairKey(pair) == TrimSpace(SplitN2(TrimSpace(pair), ":")[1])

\* one iteration of the loop over pairs: the value it assigns to the key
PairValue(pair) ==
  LET typeStr == PairTypeStr(SplitN2(TrimSpace(pair), ":"))
  IN IF HasSuffix(typeStr, STR_brackets)
     THEN ArrayProperty(TrimSpace(TrimSuffix(typeStr, STR_brackets)))
     ELSE ScalarProperty(typeStr)

\* for _, pair := range pairs { ... }
RECURSIVE ParseLoop(_, _, _)
ParseLoop(pairs, i, properties) ==
  IF i > Len(pairs) THEN [properties |-> properties, err |-> Nil]
  ELSE IF PairError(pairs[i]) # Nil THEN [properties |-> <<>>, err |-> PairError(pairs[i])]
  ELSE ParseLoop(pairs, i + 1, MapSet(properties, PairKey(pairs[i]), PairValue(pairs[i])))

\* the result for the empty format string
DefaultFormat == MapSet(<<>>, STR_message, ScalarProperty(STR_string))

ParseFormat(format) ==
  IF format = <<>> THEN [properties |-> DefaultFormat, err |-> Nil]
  ELSE ParseLoop(Split(format, ","), 1, <<>>)

(***************************************************************************)
(* pkg/provider/provider.go: registry                                      *)
(***************************************************************************)
\* mutant of New: the name is matched without regard to case
New_FoldCase(name) ==
  IF ToLower(name) \in {STR_openai, STR_oa, STR_default, <<>>}
    THEN [prov |-> "OpenAIProvider", err |-> Nil]
  ELSE IF ToLower(name) \in {STR_anthropic, STR_claude, STR_anth}
    THEN [prov |-> "AnthropicProvider", err |-> Nil]
  ELSE IF ToLower(name) \in {STR_gemini, STR_google, STR_gai}
    THEN [prov |-> "GeminiProvider", err |-> Nil]
  ELSE [prov |-> "nil", err |-> [msg |-> "ErrUnknownProvider", arg |-> name]]

\* provider.New
New(name) ==
  IF name \in {STR_openai, STR_oa, STR_default, <<>>}
    THEN [prov |-> "OpenAIProvider", err |-> Nil]
  ELSE IF name \in {STR_anthropic, STR_claude, STR_anth}
    THEN [prov |-> "AnthropicProvider", err |-> Nil]
  ELSE IF name \in {STR_gemini, STR_google, STR_gai}
    THEN [prov |-> "GeminiProvider", err |-> Nil]
  ELSE [prov |-> "nil", err |-> [msg |-> "ErrUnknownProvider", arg |-> name]]

\* the default max_tokens of a model family, by substring of the lowered name
anthropicDefaultMaxTokens(model) ==
  LET m == ToLower(model)
  IN IF ContainsStr(m, STR_opus_4_1) THEN 32000
     ELSE IF ContainsStr(m, STR_opus_4) THEN 32000
     ELSE IF ContainsStr(m, STR_sonnet_4_0) \/ ContainsStr(m, STR_sonnet_4) THEN 64000
     ELSE IF ContainsStr(m, STR_3_7_sonnet) THEN 64000
     ELSE IF ContainsStr(m, STR_3_5_sonnet) THEN 8192
     ELSE IF ContainsStr(m, STR_3_5_haiku) \/ ContainsStr(m, STR_haiku_latest) THEN 8192
     ELSE IF ContainsStr(m, STR_3_haiku) THEN 4096
     ELSE 4096

\* anthropicDefaultMaxTokens applied to the default model claude-3-5-haiku-latest
AnthropicDefaultMaxTokens == anthropicDefaultMaxTokens(STR_claude_3_5_haiku_latest)

OpenAIDefaultOptions == [Model |-> STR_gpt_5_nano, MaxTokens |-> 0]

AnthropicDefaultOptions ==
  [Model |-> STR_claude_3_5_haiku_latest, MaxTokens |-> AnthropicDefaultMaxTokens]

GeminiDefaultOptions == [Model |-> STR_gemini_2_0_flash, MaxTokens |-> 0]

OpenAICompatDefaultOptions == [Model |-> STR_gpt_4o_mini, MaxTokens |-> 0]

\* dynamic dispatch of prov.DefaultOptions()
DefaultOptions(p) ==
  IF p = "OpenAIProvider" THEN OpenAIDefaultOptions
  ELSE IF p = "AnthropicProvider" THEN AnthropicDefaultOptions
  ELSE IF p = "OpenAICompatProvider" THEN OpenAICompatDefaultOptions
  ELSE GeminiDefaultOptions

(***************************************************************************)
(* OpenAIProvider.BuildAPIPayload                                          *)
(***************************************************************************)
\* mutant of OpenAISchema: the first collected key is left out of required
OpenAISchema_DropsKey(props, required) ==
  [type |-> "object", properties |-> props, required |-> Tail(required),
   additionalProperties |-> FALSE]

\* the "schema" object; required is the key list in map iteration order
OpenAISchema(props, required) ==
  [type |-> "object", properties |-> props, required |-> required,
   additionalProperties |-> FALSE]

\* mutant of OpenAITextPayload: the entries of opts.Properties are rewritten in
\* place before the map is stored in the schema
OpenAITextPayload_Rewrites(o, required) ==
  IF Cardinality(DOMAIN o.Properties) > 0
  THEN [verbosity |-> o.Verbosity,
        format |-> [type |-> "json_schema", name |-> "response", strict |-> TRUE,
                    schema |-> OpenAISchema([k \in DOMAIN o.Properties |->
                                               [type |-> o.Properties[k].type]],
                                            required)]]
  ELSE [verbosity |-> o.Verbosity]

OpenAITextPayload(o, required) ==
  IF Cardinality(DOMAIN o.Properties) > 0
  THEN [verbosity |-> o.Verbosity,
        format |-> [type |-> "json_schema", name |-> "response", strict |-> TRUE,
                    schema |-> OpenAISchema(o.Properties, required)]]
  ELSE [verbosity |-> o.Verbosity]

OpenAIPayload(o, required) ==
  LET base == [model |-> o.Model, instructions |-> o.Instructions, input |-> o.Message,
               store |-> FALSE, text |-> OpenAITextPayload(o, required),
               reasoning |-> [effort |-> o.ReasoningEffort]]
  IN IF o.MaxTokens > 0 THEN base @@ [max_output_tokens |-> o.MaxTokens] ELSE base

\* every payload a call can return (one per iteration order of opts.Properties)
OpenAIBuildAPIPayload(o) ==
  {OpenAIPayload(o, required) : required \in RangeOrders(DOMAIN o.Properties)}

(***************************************************************************)
(* AnthropicProvider.BuildAPIPayload (pkg/provider/anthropic.go)           *)
(***************************************************************************)
\* best-effort type description of one property
TypeLabel(m) ==
  IF EqualFold(m.type, STR_array)
  THEN IF "items" \in DOMAIN m
       THEN <<"array<">> \o m.items.type \o <<">">>
       ELSE STR_string
  ELSE m.type

\* the "k: t, k: t" list written by the second loop over keys
RECURSIVE AnthropicTypeList(_, _, _)
AnthropicTypeList(props, keys, i) ==
  IF i > Len(keys) THEN <<>>
  ELSE (IF i > 1 THEN <<", ">> ELSE <<>>)
       \o keys[i] \o <<": ">> \o TypeLabel(props[keys[i]])
       \o AnthropicTypeList(props, keys, i + 1)

\* the schema hint; keys is the key list after sort.Strings
AnthropicSchemaHint(props, keys) ==
  <<"Return only a strict JSON object with keys ">>
  \o Join(keys, <<", ">>)
  \o <<". No prose, no explanations, no markdown. ">>
  \o <<"All keys are required. Types: ">>
  \o AnthropicTypeList(props, keys, 1)

AnthropicPayload(o, order) ==
  LET base == [model |-> o.Model, max_tokens |-> o.MaxTokens,
               messages |-> <<[role |-> "user", content |-> o.Message]>>]
      withInstr == IF TrimSpace(o.Instructions) # <<>>
                   THEN base @@ [system |-> o.Instructions] ELSE base
      sys == AnthropicSchemaHint(o.Properties, SortStrings(order))
  IN IF Cardinality(DOMAIN o.Properties) > 0
     THEN IF "system" \in DOMAIN withInstr /\ TrimSpace(withInstr.system) # <<>>
          THEN [withInstr EXCEPT !.system = @ \o <<"\n\n">> \o sys]
          ELSE [k \in (DOMAIN withInstr) \cup {"system"} |->
                  IF k = "system" THEN sys ELSE withInstr[k]]
     ELSE withInstr

AnthropicBuildAPIPayload(o) ==
  {AnthropicPayload(o, order) : order \in RangeOrders(DOMAIN o.Properties)}

(***************************************************************************)
(* GeminiProvider.BuildAPIPayload                                          *)
(***************************************************************************)
toGeminiType(t) ==
  LET l == ToLower(TrimSpace(t))
  IN IF l = STR_string THEN STR_STRING
     ELSE IF l = STR_integer THEN STR_INTEGER
     ELSE IF l = STR_number THEN STR_NUMBER
     ELSE IF l = STR_boolean THEN STR_BOOLEAN
     ELSE IF l = STR_object THEN STR_OBJECT
     ELSE IF l = STR_array THEN STR_ARRAY
     ELSE IF t = <<>> THEN STR_STRING
     ELSE ToUpper(t)

convertGeminiSchemaForProperty(m) ==
  IF ToLower(m.type) = STR_array
  THEN LET itemType == IF "items" \in DOMAIN m THEN m.items.type ELSE <<>>
       IN IF itemType # <<>>
          THEN [type |-> STR_ARRAY, items |-> [type |-> toGeminiType(itemType)]]
          ELSE [type |-> STR_ARRAY]
  ELSE [type |-> toGeminiType(m.type)]

\* required is the key list in map iteration order
buildGeminiObjectSchema(props, required) ==
  [type |-> STR_OBJECT,
   properties |-> [k \in DOMAIN props |-> convertGeminiSchemaForProperty(props[k])],
   required |-> required]

GeminiGenCfg(o, required) ==
  LET none == <<>>
      withMax == IF o.MaxTokens > 0 THEN [maxOutputTokens |-> o.MaxTokens] ELSE none
  IN IF Cardinality(DOMAIN o.Properties) > 0
     THEN withMax @@ [responseMimeType |-> "application/json",
                      responseSchema |-> buildGeminiObjectSchema(o.Properties, required)]
     ELSE withMax

GeminiPayload(o, required) ==
  LET base == [model |-> o.Model, contents |-> <<[parts |-> <<[text |-> o.Message]>>]>>]
      withSys == IF TrimSpace(o.Instructions) # <<>>
                 THEN base @@ [systemInstruction |-> [parts |-> <<[text |-> o.Instructions]>>]]
                 ELSE base
      genCfg == GeminiGenCfg(o, required)
  IN IF DOMAIN genCfg # {} THEN withSys @@ [generationConfig |-> genCfg] ELSE withSys

GeminiBuildAPIPayload(o) ==
  {GeminiPayload(o, required) : required \in RangeOrders(DOMAIN o.Properties)}

(***************************************************************************)
(* OpenAICompatProvider.BuildAPIPayload                                    *)
(***************************************************************************)
\* best-effort type label of one property
OpenAICompatTypeLabel(m) ==
  IF "type" \in DOMAIN m
  THEN IF EqualFold(m.type, STR_array)
       THEN IF "items" \in DOMAIN m
            THEN <<"array<">> \o m.items.type \o <<">">>
            ELSE STR_string
       ELSE m.type
  ELSE STR_string

\* the "k: t, k: t" list written by the loop over the sorted keys
RECURSIVE OpenAICompatFieldList(_, _, _)
OpenAICompatFieldList(props, keys, i) ==
  IF i > Len(keys) THEN <<>>
  ELSE (IF i > 1 THEN <<", ">> ELSE <<>>)
       \o keys[i] \o <<": ">> \o OpenAICompatTypeLabel(props[keys[i]])
       \o OpenAICompatFieldList(props, keys, i + 1)

\* the schema hint; keys is the key list after sort.Strings
OpenAICompatSchemaHint(props, keys) ==
  <<"RETURN ONLY A STRICT JSON OBJECT. NO PROSE, NO MARKDOWN.\\n">>
  \o <<"Fields (all required): ">>
  \o OpenAICompatFieldList(props, keys, 1)

OpenAICompatPayload(o, order) ==
  LET schemaHint == IF Cardinality(DOMAIN o.Properties) > 0
                    THEN OpenAICompatSchemaHint(o.Properties, SortStrings(order))
                    ELSE <<>>
      trimmed == TrimSpace(o.Instructions)
      sys == IF schemaHint # <<>>
             THEN IF trimmed # <<>> THEN trimmed \o <<"\n\n">> \o schemaHint
                  ELSE schemaHint
             ELSE trimmed
      messages == (IF sys # <<>> THEN <<[role |-> "system", content |-> sys]>> ELSE <<>>)
                  \o <<[role |-> "user", content |-> o.Message]>>
      base == [model |-> o.Model, messages |-> messages]
  IN IF o.MaxTokens > 0 THEN base @@ [max_tokens |-> o.MaxTokens] ELSE base

OpenAICompatBuildAPIPayload(o) ==
  {OpenAICompatPayload(o, order) : order \in RangeOrders(DOMAIN o.Properties)}

\* The Properties map of the caller after a call.  Options is passed by value and
\* Properties is its one reference field; the OpenAI payload stores that very
\* map under text.format.schema.properties, the other builders store none of it.
SharedProperties(p, pl, props) ==
  IF p = "OpenAIProvider" /\ "text" \in DOMAIN pl /\ "format" \in DOMAIN pl.text
  THEN pl.text.format.schema.properties
  ELSE props

\* dynamic dispatch of prov.BuildAPIPayload(opts)
BuildAPIPayload(p, o) ==
  IF p = "OpenAIProvider" THEN OpenAIBuildAPIPayload(o)
  ELSE IF p = "AnthropicProvider" THEN AnthropicBuildAPIPayload(o)
  ELSE IF p = "OpenAICompatProvider" THEN OpenAICompatBuildAPIPayload(o)
  ELSE GeminiBuildAPIPayload(o)

(***************************************************************************)
(* BuildAPIRequest of the four providers                                   *)
(***************************************************************************)
\* strings.TrimRight(s, "/")
RECURSIVE TrimRightSlash(_)
TrimRightSlash(s) ==
  IF s # <<>> /\ s[Len(s)] = "/" THEN TrimRightSlash(SubSeq(s, 1, Len(s) - 1)) ELSE s

\* url.PathEscape, one character at a time
PathEscapeChar(c) ==
  IF c = " " THEN <<"%", "2", "0">>
  ELSE IF c = "/" THEN <<"%", "2", "F">>
  ELSE IF c = "?" THEN <<"%", "3", "F">>
  ELSE <<c>>

RECURSIVE PathEscape(_)
PathEscape(s) == IF s = <<>> THEN <<>> ELSE PathEscapeChar(Head(s)) \o PathEscape(Tail(s))

\* url.QueryEscape as url.Values.Encode applies it, one character at a time
QueryEscapeChar(c) ==
  IF c = " " THEN <<"+">>
  ELSE IF c = "/" THEN <<"%", "2", "F">>
  ELSE IF c = "?" THEN <<"%", "3", "F">>
  ELSE IF c = "*" THEN <<"%", "2", "A">>
  ELSE <<c>>

RECURSIVE QueryEscape(_)
QueryEscape(s) == IF s = <<>> THEN <<>> ELSE QueryEscapeChar(Head(s)) \o QueryEscape(Tail(s))

\* http.CanonicalHeaderKey of the names the providers set
CanonicalHeaderKey(k) ==
  IF k = "x-api-key" THEN "X-Api-Key"
  ELSE IF k = "anthropic-version" THEN "Anthropic-Version"
  ELSE IF k = "x-trace" THEN "X-Trace"
  ELSE k

\* req.Header.Set(k, v)
HeaderSet(h, k, v) == (CanonicalHeaderKey(k) :> v) @@ h

\* the loop over reqOpts.ExtraHeaders; names and values that are empty are skipped
RECURSIVE SetExtraHeaders(_, _, _)
SetExtraHeaders(h, extra, order) ==
  IF order = <<>> THEN h
  ELSE SetExtraHeaders(IF Head(order) = "" \/ extra[Head(order)] = <<>>
                       THEN h ELSE HeaderSet(h, Head(order), extra[Head(order)]),
                       extra, Tail(order))

\* json.Marshal(payload): object keys are written sorted and lists in element
\* order, so two payloads give the same bytes exactly when they are equal
Marshal(v) == [json |-> v]

\* os.Getenv
Getenv(environ, name) == IF name \in DOMAIN environ THEN environ[name] ELSE <<>>

MissingAPIKeyError(provider, envVar) ==
  [msg |-> "MissingAPIKeyError", Provider |-> provider, EnvVar |-> envVar]

\* errors.Is(err, ErrMissingAPIKey): only MissingAPIKeyError unwraps to it
IsErrMissingAPIKey(err) == err.msg = "MissingAPIKeyError"

\* reqOpts.APIKey, else the environment variable
ResolveAPIKey(ro, environ, envVar) ==
  IF ro.APIKey = <<>> THEN Getenv(environ, envVar) ELSE ro.APIKey

NoRequest == [method |-> "nil"]

JSONHeaders ==
  HeaderSet(HeaderSet(<<>>, "Content-Type", STR_application_json), "Accept", STR_application_json)

\* the results are [req, err, payload]: payload is the caller's map after the call
OpenAIBuildAPIRequest(pl, base, ro, environ, order) ==
  LET apiKey == ResolveAPIKey(ro, environ, STR_OPENAI_API_KEY)
      url == TrimRightSlash(IF base = <<>> THEN STR_openai_base ELSE base) \o STR_responses
  IN IF apiKey = <<>>
     THEN [req |-> NoRequest, err |-> [msg |-> "OPENAI_API_KEY is not set"], payload |-> pl]
     ELSE [req |-> [method |-> "POST", url |-> url, query |-> <<>>,
                    header |-> SetExtraHeaders(
                       HeaderSet(JSONHeaders, "Authorization", STR_Bearer \o apiKey),
                       ro.ExtraHeaders, order),
                    body |-> Marshal(pl)],
           err |-> Nil, payload |-> pl]

OpenAICompatBuildAPIRequest(pl, base, ro, environ, order) ==
  LET apiKey == ResolveAPIKey(ro, environ, STR_OPENAI_API_KEY)
      url == TrimRightSlash(IF base = <<>> THEN STR_openai_base ELSE base)
             \o STR_chat_completions
  IN IF apiKey = <<>>
     THEN [req |-> NoRequest,
           err |-> MissingAPIKeyError(STR_openai_compat, STR_OPENAI_API_KEY), payload |-> pl]
     ELSE [req |-> [method |-> "POST", url |-> url, query |-> <<>>,
                    header |-> SetExtraHeaders(
                       HeaderSet(JSONHeaders, "Authorization", STR_Bearer \o apiKey),
                       ro.ExtraHeaders, order),
                    body |-> Marshal(pl)],
           err |-> Nil, payload |-> pl]

AnthropicBuildAPIRequest(pl, base, ro, environ, order) ==
  LET apiKey == ResolveAPIKey(ro, environ, STR_ANTHROPIC_API_KEY)
      url == TrimRightSlash(IF base = <<>> THEN STR_anthropic_base ELSE base) \o STR_messages
  IN IF apiKey = <<>>
     THEN [req |-> NoRequest,
           err |-> MissingAPIKeyError(STR_anthropic, STR_ANTHROPIC_API_KEY), payload |-> pl]
     ELSE [req |-> [method |-> "POST", url |-> url, query |-> <<>>,
                    header |-> SetExtraHeaders(
                       HeaderSet(HeaderSet(JSONHeaders, "anthropic-version", STR_2023_06_01),
                                 "x-api-key", apiKey),
                       ro.ExtraHeaders, order),
                    body |-> Marshal(pl)],
           err |-> Nil, payload |-> pl]

\* mutant of GeminiDeleteModel: the caller's map keeps its model entry
GeminiDeleteModel_Keep(pl) == pl

\* delete(payload, "model")
GeminiDeleteModel(pl) == [k \in (DOMAIN pl) \ {"model"} |-> pl[k]]

GeminiBuildAPIRequest(pl, base, ro, environ, order) ==
  LET model == IF "model" \in DOMAIN pl THEN pl.model ELSE <<>>
      body == GeminiDeleteModel(pl)
      apiKey == ResolveAPIKey(ro, environ, STR_GEMINI_API_KEY)
      url == TrimRightSlash(IF base = <<>> THEN STR_gemini_base ELSE base)
             \o STR_v1beta_models \o PathEscape(model) \o STR_generateContent
  IN IF TrimSpace(model) = <<>>
     THEN [req |-> NoRequest, err |-> [msg |-> "gemini: model is required"],
           payload |-> body]
     ELSE IF apiKey = <<>>
     THEN [req |-> NoRequest,
           err |-> MissingAPIKeyError(STR_gemini, STR_GEMINI_API_KEY), payload |-> body]
     ELSE [req |-> [method |-> "POST", url |-> url, query |-> [key |-> apiKey],
                    header |-> SetExtraHeaders(JSONHeaders, ro.ExtraHeaders, order),
                    body |-> Marshal(body)],
           err |-> Nil, payload |-> body]

\* dynamic dispatch of prov.BuildAPIRequest(payload, baseURL, reqOpts); order is
\* the iteration order of the loop over reqOpts.ExtraHeaders
BuildAPIRequest(p, pl, base, ro, environ, order) ==
  IF p = "OpenAIProvider" THEN OpenAIBuildAPIRequest(pl, base, ro, environ, order)
  ELSE IF p = "AnthropicProvider" THEN AnthropicBuildAPIRequest(pl, base, ro, environ, order)
  ELSE IF p = "OpenAICompatProvider"
  THEN OpenAICompatBuildAPIRequest(pl, base, ro, environ, order)
  ELSE GeminiBuildAPIRequest(pl, base, ro, environ, order)

\* req.URL.String()
URLString(req) ==
  req.url \o (IF "key" \in DOMAIN req.query
              THEN <<"?", "k", "e", "y", "=">> \o QueryEscape(req.query.key) ELSE <<>>)

(***************************************************************************)
(* ParseAPIResponse of the four providers.  A response body is modelled by *)
(* the JSON document it holds: [valid |-> FALSE] for bytes that are not    *)
(* JSON, [valid |-> TRUE, doc |-> object] otherwise.                       *)
(***************************************************************************)
InvalidBody == [valid |-> FALSE]

JSONBody(doc) == [valid |-> TRUE, doc |-> doc]

\* json.Unmarshal into a struct: a member the document lacks keeps its zero value
Field(doc, name, zero) == IF name \in DOMAIN doc THEN doc[name] ELSE zero

ParseFailed == [text |-> <<>>, err |-> [msg |-> "failed to parse response"]]

\* mutant of OpenAIScanContent: the last matching block wins
RECURSIVE OpenAIScanContent_Last(_)
OpenAIScanContent_Last(content) ==
  IF content = <<>> THEN <<>>
  ELSE LET c == content[Len(content)]
       IN IF Field(c, "type", <<>>) = "output_text" /\ Field(c, "text", <<>>) # <<>>
          THEN Field(c, "text", <<>>)
          ELSE OpenAIScanContent_Last(SubSeq(content, 1, Len(content) - 1))

\* the inner loop: the text of the first output_text block with a non-empty text
RECURSIVE OpenAIScanContent(_)
OpenAIScanContent(content) ==
  IF content = <<>> THEN <<>>
  ELSE LET c == Head(content)
       IN IF Field(c, "type", <<>>) = "output_text" /\ Field(c, "text", <<>>) # <<>>
          THEN Field(c, "text", <<>>)
          ELSE OpenAIScanContent(Tail(content))

\* the outer loop: stops at the first item that gave a text
RECURSIVE OpenAIScanOutput(_)
OpenAIScanOutput(output) ==
  IF output = <<>> THEN <<>>
  ELSE LET t == OpenAIScanContent(Field(Head(output), "content", <<>>))
       IN IF t # <<>> THEN t ELSE OpenAIScanOutput(Tail(output))

OpenAIParseAPIResponse(body) ==
  IF ~body.valid THEN ParseFailed
  ELSE [text |-> IF Field(body.doc, "output_text", <<>>) # <<>>
                 THEN Field(body.doc, "output_text", <<>>)
                 ELSE OpenAIScanOutput(Field(body.doc, "output", <<>>)),
        err |-> Nil]

\* the loop over content blocks: texts of the blocks of type text, in order
RECURSIVE AnthropicJoinText(_)
AnthropicJoinText(content) ==
  IF content = <<>> THEN <<>>
  ELSE (IF Field(Head(content), "type", <<>>) = "text" /\ Field(Head(content), "text", <<>>) # <<>>
        THEN Field(Head(content), "text", <<>>) ELSE <<>>)
       \o AnthropicJoinText(Tail(content))

AnthropicParseAPIResponse(body) ==
  IF ~body.valid THEN ParseFailed
  ELSE [text |-> AnthropicJoinText(Field(body.doc, "content", <<>>)), err |-> Nil]

\* the loop over the parts of one candidate
RECURSIVE GeminiJoinParts(_)
GeminiJoinParts(parts) ==
  IF parts = <<>> THEN <<>>
  ELSE (IF Field(Head(parts), "text", <<>>) # <<>> THEN Field(Head(parts), "text", <<>>)
        ELSE <<>>)
       \o GeminiJoinParts(Tail(parts))

\* mutant of GeminiCandidatesText: every candidate is read
RECURSIVE GeminiCandidatesText_All(_)
GeminiCandidatesText_All(candidates) ==
  IF candidates = <<>> THEN <<>>
  ELSE GeminiJoinParts(Field(Field(Head(candidates), "content", <<>>), "parts", <<>>))
       \o GeminiCandidatesText_All(Tail(candidates))

\* only apiResp.Candidates[0] is read
GeminiCandidatesText(candidates) ==
  IF Len(candidates) > 0
  THEN GeminiJoinParts(Field(Field(candidates[1], "content", <<>>), "parts", <<>>))
  ELSE <<>>

GeminiParseAPIResponse(body) ==
  IF ~body.valid THEN ParseFailed
  ELSE [text |-> GeminiCandidatesText(Field(body.doc, "candidates", <<>>)), err |-> Nil]

OpenAICompatParseAPIResponse(body) ==
  IF ~body.valid THEN ParseFailed
  ELSE IF Len(Field(body.doc, "choices", <<>>)) = 0
  THEN [text |-> <<>>, err |-> [msg |-> "no choices in response"]]
  ELSE [text |-> Field(Field(body.doc.choices[1], "message", <<>>), "content", <<>>),
        err |-> Nil]

\* dynamic dispatch of prov.ParseAPIResponse(respBody)
ParseAPIResponse(p, body) ==
  IF p = "OpenAIProvider" THEN OpenAIParseAPIResponse(body)
  ELSE IF p = "AnthropicProvider" THEN AnthropicParseAPIResponse(body)
  ELSE IF p = "OpenAICompatProvider" THEN OpenAICompatParseAPIResponse(body)
  ELSE GeminiParseAPIResponse(body)

(***************************************************************************)
(* encoding/json on the model's output text.  A text is a list of pieces;  *)
(* the documents the enumerated servers answer with are listed with the    *)
(* map json.Unmarshal decodes them to: ok is FALSE when decoding into a    *)
(* map fails, a string value carries its characters, any other value the   *)
(* compact text json.Marshal writes for it.                                *)
(***************************************************************************)
DOC_null ==
  [text |-> <<"null">>,
   ok |-> TRUE,
   obj |-> <<>>]

DOC_array ==
  [text |-> <<"[1,2]">>,
   ok |-> FALSE,
   obj |-> <<>>]

DOC_empty ==
  [text |-> <<"{}">>,
   ok |-> TRUE,
   obj |-> <<>>]

DOC_a_x ==
  [text |-> <<"{\"a\":\"x\"}">>,
   ok |-> TRUE,
   obj |-> (<<"a">> :> [kind |-> "string", str |-> <<"x">>])]

DOC_a_x_nl ==
  [text |-> <<"{\"a\":\"x\"}", "\n">>,
   ok |-> TRUE,
   obj |-> (<<"a">> :> [kind |-> "string", str |-> <<"x">>])]

DOC_a_x_nlnl ==
  [text |-> <<"{\"a\":\"x\"}", "\n", "\n">>,
   ok |-> TRUE,
   obj |-> (<<"a">> :> [kind |-> "string", str |-> <<"x">>])]

DOC_a_xnlnl ==
  [text |-> <<"{\"a\":\"x\\n\\n\"}">>,
   ok |-> TRUE,
   obj |-> (<<"a">> :> [kind |-> "string", str |-> <<"x", "\n", "\n">>])]

DOC_a_xnl ==
  [text |-> <<"{\"a\":\"x\\n\"}">>,
   ok |-> TRUE,
   obj |-> (<<"a">> :> [kind |-> "string", str |-> <<"x", "\n">>])]

DOC_a_14 ==
  [text |-> <<"{\"a\":14}">>,
   ok |-> TRUE,
   obj |-> (<<"a">> :> [kind |-> "number", json |-> <<"14">>])]

DOC_a_true ==
  [text |-> <<"{\"a\":true}">>,
   ok |-> TRUE,
   obj |-> (<<"a">> :> [kind |-> "bool", json |-> <<"true">>])]

DOC_a_null ==
  [text |-> <<"{\"a\":null}">>,
   ok |-> TRUE,
   obj |-> (<<"a">> :> [kind |-> "null", json |-> <<"null">>])]

DOC_a_list ==
  [text |-> <<"{\"a\": [1, 2]}">>,
   ok |-> TRUE,
   obj |-> (<<"a">> :> [kind |-> "array", json |-> <<"[1,2]">>])]

DOC_a_obj ==
  [text |-> <<"{\"a\": {\"k\": 1}}">>,
   ok |-> TRUE,
   obj |-> (<<"a">> :> [kind |-> "object", json |-> <<"{\"k\":1}">>])]

DOC_a_x_error_boom ==
  [text |-> <<"{\"a\":\"x\",\"error\":\"boom\"}">>,
   ok |-> TRUE,
   obj |-> (<<"a">> :> [kind |-> "string", str |-> <<"x">>] @@ <<"e", "r", "r", "o", "r">> :> [kind |-> "string", str |-> <<"b", "o", "o", "m">>])]

DOC_error_boom ==
  [text |-> <<"{\"error\":\"boom\"}">>,
   ok |-> TRUE,
   obj |-> (<<"e", "r", "r", "o", "r">> :> [kind |-> "string", str |-> <<"b", "o", "o", "m">>])]

DOC_a_x_error_empty ==
  [text |-> <<"{\"a\":\"x\",\"error\":\"\"}">>,
   ok |-> TRUE,
   obj |-> (<<"a">> :> [kind |-> "string", str |-> <<"x">>] @@ <<"e", "r", "r", "o", "r">> :> [kind |-> "string", str |-> <<>>])]

DOC_a_x_error_nullword ==
  [text |-> <<"{\"a\":\"x\",\"error\":\"null\"}">>,
   ok |-> TRUE,
   obj |-> (<<"a">> :> [kind |-> "string", str |-> <<"x">>] @@ <<"e", "r", "r", "o", "r">> :> [kind |-> "string", str |-> <<"n", "u", "l", "l">>])]

DOC_a_x_error_blank ==
  [text |-> <<"{\"a\":\"x\",\"error\":\" \"}">>,
   ok |-> TRUE,
   obj |-> (<<"a">> :> [kind |-> "string", str |-> <<"x">>] @@ <<"e", "r", "r", "o", "r">> :> [kind |-> "string", str |-> <<" ">>])]

DOC_a_x_error_padded ==
  [text |-> <<"{\"a\":\"x\",\"error\":\" boom \"}">>,
   ok |-> TRUE,
   obj |-> (<<"a">> :> [kind |-> "string", str |-> <<"x">>] @@ <<"e", "r", "r", "o", "r">> :> [kind |-> "string", str |-> <<" ", "b", "o", "o", "m", " ">>])]

DOC_a_x_error_5 ==
  [text |-> <<"{\"a\":\"x\",\"error\":5}">>,
   ok |-> TRUE,
   obj |-> (<<"a">> :> [kind |-> "string", str |-> <<"x">>] @@ <<"e", "r", "r", "o", "r">> :> [kind |-> "number", json |-> <<"5">>])]

DOC_a_x_b_oops ==
  [text |-> <<"{\"a\":\"x\",\"b\":\"oops\"}">>,
   ok |-> TRUE,
   obj |-> (<<"a">> :> [kind |-> "string", str |-> <<"x">>] @@ <<"b">> :> [kind |-> "string", str |-> <<"o", "o", "p", "s">>])]

DOC_message_hi ==
  [text |-> <<"{\"message\":\"hi\",\"error\":\"\"}">>,
   ok |-> TRUE,
   obj |-> (<<"m", "e", "s", "s", "a", "g", "e">> :> [kind |-> "string", str |-> <<"h", "i">>] @@ <<"e", "r", "r", "o", "r">> :> [kind |-> "string", str |-> <<>>])]

JSONDocs ==
  {DOC_null,
   DOC_array,
   DOC_empty,
   DOC_a_x,
   DOC_a_x_nl,
   DOC_a_x_nlnl,
   DOC_a_xnl,
   DOC_a_xnlnl,
   DOC_a_14,
   DOC_a_true,
   DOC_a_null,
   DOC_a_list,
   DOC_a_obj,
   DOC_a_x_error_boom,
   DOC_error_boom,
   DOC_a_x_error_empty,
   DOC_a_x_error_nullword,
   DOC_a_x_error_blank,
   DOC_a_x_error_padded,
   DOC_a_x_error_5,
   DOC_a_x_b_oops,
   DOC_message_hi}

\* json.Unmarshal([]byte(textOut), &obj) for a map obj
UnmarshalObject(text) ==
  IF \E d \in JSONDocs : d.text = text
  THEN LET d == CHOOSE e \in JSONDocs : e.text = text IN [ok |-> d.ok, obj |-> d.obj]
  ELSE [ok |-> FALSE, obj |-> <<>>]

\* string(b) for b, _ := json.Marshal(v), v a number, a boolean, nil, a list or a map
MarshalValue(v) == v.json

(***************************************************************************)
(* Enumerated --format strings                                             *)
(***************************************************************************)
PoolKeys == {<<>>, <<"a">>, <<"b">>}

\* text after the first colon of a pair
PoolTypes ==
  { <<>>, STR_string, STR_integer, STR_foo, STR_array,
    STR_string \o STR_brackets,
    STR_brackets,
    STR_string \o STR_brackets \o STR_brackets,
    STR_string \o STR_brackets \o <<" ">> \o STR_brackets,
    STR_array \o STR_brackets,
    STR_array \o <<"[">> \o STR_string \o <<"]">>,
    STR_string \o <<":">> \o STR_string }

PoolPairs ==
  PoolKeys
  \cup {k \o <<":">> \o t : k \in PoolKeys, t \in PoolTypes}
  \cup {<<" ", "a", " ">>, <<" ">>}
  \cup {<<" ", "a", " ", ":", " ">> \o t \o <<" ">> : t \in PoolTypes}


(***************************************************************************)
(* Enumerated inputs of the payload builders and of the command            *)
(***************************************************************************)
PayloadFormats ==
  { <<"a">>,
    <<"b", ":">> \o STR_integer \o <<",", "a", ":">> \o STR_string \o STR_brackets,
    <<"c", ":">> \o STR_foo \o <<",", "a", ",", "b", ":">> \o STR_integer \o STR_brackets,
    <<"a", ":">> \o STR_array,
    <<"a", ":">> \o STR_number \o <<",", "B", ":">> \o STR_boolean,
    STR_message \o <<",">> \o STR_error }

\* field sets: the empty one and those the parser returns
PayloadProperties ==
  {<<>>} \cup {ParseFormat(f).properties : f \in {g \in PayloadFormats : ParseFormat(g).err = Nil}}

PayloadInstructions == {<<>>, <<" ">>, <<"h", "i">>}

PayloadOptions ==
  [Model : {<<>>, STR_claude_opus_4_1},
   Instructions : PayloadInstructions,
   Message : {<<"Q">>},
   Verbosity : {"low"},
   ReasoningEffort : {"minimal"},
   Properties : PayloadProperties,
   MaxTokens : {0, 100}]

Providers == {"OpenAIProvider", "OpenAICompatProvider", "AnthropicProvider", "GeminiProvider"}

\* API keys: the one passed in RequestOptions and the one in the environment
KEY_FLAG == <<"K", "1">>
KEY_ENV == <<"K", "2">>

EnvNames == {STR_OPENAI_API_KEY, STR_ANTHROPIC_API_KEY, STR_GEMINI_API_KEY}

\* os.Environ: no key set, or every provider's key set
Environments == {[n \in EnvNames |-> <<>>], [n \in EnvNames |-> KEY_ENV]}

RequestBaseURLs == {<<>>, STR_http_h, STR_http_h_slash}

RequestOptionsPool ==
  [APIKey : {<<>>, KEY_FLAG}, ExtraHeaders : {<<>>, ("x-trace" :> <<"t">>)}]

NoRequestOptions == [APIKey |-> <<>>, ExtraHeaders |-> <<>>]

ProviderNames ==
  { STR_openai, STR_oa, STR_default, <<>>, STR_anthropic, STR_claude, STR_anth,
    STR_gemini, STR_google, STR_gai, STR_OpenAI, STR_Claude, STR_openai_compat, STR_llama }

RunFormats ==
  { STR_message \o <<",">> \o STR_error,
    <<"a", ",", "b", ":">> \o STR_string \o STR_brackets,
    <<"a", ":", ":">>,
    <<>> }

\* the flag variables of cmd/root.go
RunFlags ==
  [provider : ProviderNames,
   model : {<<>>, STR_claude_opus_4_1},
   instructions : {<<>>, <<"h", "i">>},
   errorKey : {STR_error, <<"b">>},
   onlyKey : {<<>>, <<"a">>},
   maxTokens : {0, 100},
   verbose : BOOLEAN]

\* texts of the enumerated response bodies
ResponseTexts == {<<>>, <<"x">>, <<"y">>}

OpenAIBlocks ==
  {[type |-> "output_text", text |-> t] : t \in ResponseTexts}
  \cup {[type |-> "reasoning", text |-> <<"z">>]}

AnthropicBlocks ==
  {[type |-> "text", text |-> t] : t \in ResponseTexts}
  \cup {[type |-> "tool_use", text |-> <<"z">>]}

\* lists of at most n elements of S
SeqsUpTo(S, n) == UNION {[1..k -> S] : k \in 0..n}

\* the --base-url values: unset, a full URL, and text without scheme and host
RunBaseURLs == {<<>>, STR_http_h, <<"h">>}

NoFlags ==
  [provider |-> <<>>, model |-> <<>>, instructions |-> <<>>, errorKey |-> STR_error,
   onlyKey |-> <<>>, maxTokens |-> 0, verbose |-> FALSE]

NoOptions ==
  [Model |-> <<>>, Instructions |-> <<>>, Message |-> <<>>, Verbosity |-> "",
   ReasoningEffort |-> "", Properties |-> <<>>, MaxTokens |-> 0]

(***************************************************************************)
(* State                                                                   *)
(***************************************************************************)
VARIABLES
  pc,          \* position of the call or of the command
  format,      \* the --format string
  properties,  \* result of ParseFormat
  parseErr,    \* error of ParseFormat, or Nil
  flags,       \* the other flags of the command
  message,     \* the prompt
  prov,        \* the selected provider
  opts,        \* provider.Options handed to BuildAPIPayload
  payload,     \* result of BuildAPIPayload
  stdout,      \* text written to os.Stdout
  stderr,      \* text written to os.Stderr
  exitCode,    \* status of os.Exit, -1 while the command runs
  payload2,    \* result of a second BuildAPIPayload with the same Options
  baseURL,     \* the --base-url flag, the baseURL argument of BuildAPIRequest
  reqOpts,     \* provider.RequestOptions handed to BuildAPIRequest
  env,         \* the environment variables of the process
  request,     \* the *http.Request of BuildAPIRequest, or NoRequest
  reqErr,      \* error of BuildAPIRequest, or Nil
  httpCalls,   \* number of http.DefaultClient.Do calls
  resp,        \* the HTTP response, or NoResponse
  textOut,     \* result of ParseAPIResponse
  respErr      \* error of ParseAPIResponse, or Nil

vars == <<pc, format, properties, parseErr, flags, message, prov, opts, payload,
          stdout, stderr, exitCode, payload2, baseURL, reqOpts, env, request, reqErr,
          httpCalls, resp, textOut, respErr>>

parseVars == <<format, properties, parseErr>>
ioVars == <<stdout, stderr, exitCode>>
callVars == <<baseURL, reqOpts, env>>
reqVars == <<request, reqErr>>
respVars == <<httpCalls, resp, textOut, respErr>>

NoResponse == [status |-> 0]

\* the later variables before anything wrote them
NothingSent ==
  /\ payload2 = <<>>
  /\ request = NoRequest
  /\ reqErr = Nil
  /\ httpCalls = 0
  /\ resp = NoResponse
  /\ textOut = <<>>
  /\ respErr = Nil

(***************************************************************************)
(* SpecParse: one call of parser.ParseFormat                               *)
(***************************************************************************)
InitParse ==
  /\ pc = "parse_call"
  /\ \E n \in 0..MaxPairs : \E ps \in [1..n -> PoolPairs] : format = Join(ps, <<",">>)
  /\ properties = <<>>
  /\ parseErr = Nil
  /\ flags = NoFlags
  /\ message = <<>>
  /\ prov = "nil"
  /\ opts = NoOptions
  /\ payload = <<>>
  /\ stdout = <<>>
  /\ stderr = <<>>
  /\ exitCode = -1
  /\ baseURL = <<>>
  /\ reqOpts = NoRequestOptions
  /\ env \in Environments
  /\ NothingSent

CallParseFormat ==
  /\ pc = "parse_call"
  /\ pc' = "parse_done"
  /\ properties' = ParseFormat(format).properties
  /\ parseErr' = ParseFormat(format).err
  /\ UNCHANGED <<format, flags, message, prov, opts, payload, ioVars, payload2, callVars, reqVars, respVars>>

NextParse == CallParseFormat

SpecParse == InitParse /\ [][NextParse]_vars

(***************************************************************************)
(* SpecPayload: one call of a provider's BuildAPIPayload                   *)
(***************************************************************************)
InitPayload ==
  /\ pc = "payload_call"
  /\ prov \in Providers
  /\ opts \in PayloadOptions
  /\ payload = <<>>
  /\ format = <<>>
  /\ properties = <<>>
  /\ parseErr = Nil
  /\ flags = NoFlags
  /\ message = <<>>
  /\ stdout = <<>>
  /\ stderr = <<>>
  /\ exitCode = -1
  /\ baseURL \in RequestBaseURLs
  /\ reqOpts \in RequestOptionsPool
  /\ env \in Environments
  /\ NothingSent

\* what a call of BuildAPIPayload leaves besides its result
PayloadFrame ==
  /\ opts' = [opts EXCEPT !.Properties = SharedProperties(prov, payload', @)]
  /\ pc' = "payload_done"
  /\ UNCHANGED <<parseVars, flags, message, prov, ioVars, payload2, callVars, reqVars, respVars>>

CallOpenAIBuildAPIPayload ==
  /\ pc = "payload_call"
  /\ prov = "OpenAIProvider"
  /\ payload' \in OpenAIBuildAPIPayload(opts)
  /\ PayloadFrame

CallOpenAICompatBuildAPIPayload ==
  /\ pc = "payload_call"
  /\ prov = "OpenAICompatProvider"
  /\ payload' \in OpenAICompatBuildAPIPayload(opts)
  /\ PayloadFrame

CallAnthropicBuildAPIPayload ==
  /\ pc = "payload_call"
  /\ prov = "AnthropicProvider"
  /\ payload' \in AnthropicBuildAPIPayload(opts)
  /\ PayloadFrame

CallGeminiBuildAPIPayload ==
  /\ pc = "payload_call"
  /\ prov = "GeminiProvider"
  /\ payload' \in GeminiBuildAPIPayload(opts)
  /\ PayloadFrame

\* the same provider is asked again with the same Options
CallBuildAPIPayloadAgain ==
  /\ pc = "payload_done"
  /\ payload2' \in BuildAPIPayload(prov, opts)
  /\ opts' = [opts EXCEPT !.Properties = SharedProperties(prov, payload2', @)]
  /\ pc' = "payload_twice"
  /\ UNCHANGED <<parseVars, flags, message, prov, payload, ioVars, callVars, reqVars, respVars>>

\* prov.BuildAPIRequest(payload, baseURL, reqOpts) on the first payload, and once
\* more on the same map
CallBuildAPIRequest ==
  /\ pc \in {"payload_twice", "request_done"}
  /\ \E order \in RangeOrders(DOMAIN reqOpts.ExtraHeaders) :
       LET r == BuildAPIRequest(prov, payload, baseURL, reqOpts, env, order)
       IN /\ request' = r.req
          /\ reqErr' = r.err
          /\ payload' = r.payload
          /\ opts' = [opts EXCEPT !.Properties = SharedProperties(prov, r.payload, @)]
  /\ pc' = IF pc = "payload_twice" THEN "request_done" ELSE "request_twice"
  /\ UNCHANGED <<parseVars, flags, message, prov, ioVars, payload2, callVars, respVars>>

NextPayload ==
  \/ CallOpenAIBuildAPIPayload
  \/ CallOpenAICompatBuildAPIPayload
  \/ CallAnthropicBuildAPIPayload
  \/ CallGeminiBuildAPIPayload
  \/ CallBuildAPIPayloadAgain
  \/ CallBuildAPIRequest

SpecPayload == InitPayload /\ [][NextPayload]_vars

(***************************************************************************)
(* SpecResponse: one call of a provider's ParseAPIResponse                 *)
(***************************************************************************)
\* the bodies a server can send to each provider, by the lists they carry
OpenAIBody(items, top) ==
  JSONBody([output |-> [i \in DOMAIN items |-> [content |-> items[i]]]] @@ top)

AnthropicBody(content) == JSONBody([content |-> content])

GeminiBody(cs) ==
  JSONBody([candidates |-> [i \in DOMAIN cs |-> [content |-> [parts |->
              [j \in DOMAIN cs[i] |-> [text |-> cs[i][j]]]]]]])

OpenAICompatBody(cs) ==
  JSONBody([choices |-> [i \in DOMAIN cs |-> [message |-> [content |-> cs[i]]]]])

\* the top-level output_text field: absent (or empty, which decodes alike) or set
OpenAITops == {<<>>, [output_text |-> <<"t">>]}

\* the enumerated response: bytes that are no JSON, the empty object, or a body
\* of the provider with at most MaxItems items (candidates, choices, blocks),
\* each item or candidate a list of at most MaxBlocks blocks (parts)
ResponseIsEnumerated ==
  \/ resp = [status |-> 200, body |-> InvalidBody]
  \/ resp = [status |-> 200, body |-> JSONBody(<<>>)]
  \/ /\ prov = "OpenAIProvider"
     /\ \E n \in 0..MaxItems : \E items \in [1..n -> SeqsUpTo(OpenAIBlocks, MaxBlocks)] :
          \E top \in OpenAITops : resp = [status |-> 200, body |-> OpenAIBody(items, top)]
  \/ /\ prov = "AnthropicProvider"
     /\ \E n \in 0..MaxItems : \E c \in [1..n -> AnthropicBlocks] :
          resp = [status |-> 200, body |-> AnthropicBody(c)]
  \/ /\ prov = "OpenAICompatProvider"
     /\ \E n \in 0..MaxItems : \E cs \in [1..n -> ResponseTexts] :
          resp = [status |-> 200, body |-> OpenAICompatBody(cs)]
  \/ /\ prov = "GeminiProvider"
     /\ \E n \in 0..MaxItems : \E cs \in [1..n -> SeqsUpTo(ResponseTexts, MaxBlocks)] :
          resp = [status |-> 200, body |-> GeminiBody(cs)]

InitResponse ==
  /\ pc = "response_call"
  /\ prov \in Providers
  /\ ResponseIsEnumerated
  /\ format = <<>>
  /\ properties = <<>>
  /\ parseErr = Nil
  /\ flags = NoFlags
  /\ message = <<>>
  /\ opts = NoOptions
  /\ payload = <<>>
  /\ stdout = <<>>
  /\ stderr = <<>>
  /\ exitCode = -1
  /\ payload2 = <<>>
  /\ baseURL = <<>>
  /\ reqOpts = NoRequestOptions
  /\ env = [n \in EnvNames |-> <<>>]
  /\ request = NoRequest
  /\ reqErr = Nil
  /\ httpCalls = 0
  /\ textOut = <<>>
  /\ respErr = Nil

\* what a call of ParseAPIResponse leaves besides its results
ResponseFrame ==
  /\ pc' = "response_done"
  /\ UNCHANGED <<parseVars, flags, message, prov, opts, payload, ioVars, payload2,
                 callVars, reqVars, httpCalls, resp>>

CallOpenAIParseAPIResponse ==
  /\ pc = "response_call"
  /\ prov = "OpenAIProvider"
  /\ textOut' = OpenAIParseAPIResponse(resp.body).text
  /\ respErr' = OpenAIParseAPIResponse(resp.body).err
  /\ ResponseFrame

CallOpenAICompatParseAPIResponse ==
  /\ pc = "response_call"
  /\ prov = "OpenAICompatProvider"
  /\ textOut' = OpenAICompatParseAPIResponse(resp.body).text
  /\ respErr' = OpenAICompatParseAPIResponse(resp.body).err
  /\ ResponseFrame

CallAnthropicParseAPIResponse ==
  /\ pc = "response_call"
  /\ prov = "AnthropicProvider"
  /\ textOut' = AnthropicParseAPIResponse(resp.body).text
  /\ respErr' = AnthropicParseAPIResponse(resp.body).err
  /\ ResponseFrame

CallGeminiParseAPIResponse ==
  /\ pc = "response_call"
  /\ prov = "GeminiProvider"
  /\ textOut' = GeminiParseAPIResponse(resp.body).text
  /\ respErr' = GeminiParseAPIResponse(resp.body).err
  /\ ResponseFrame

NextResponse ==
  \/ CallOpenAIParseAPIResponse
  \/ CallOpenAICompatParseAPIResponse
  \/ CallAnthropicParseAPIResponse
  \/ CallGeminiParseAPIResponse

SpecResponse == InitResponse /\ [][NextResponse]_vars

(***************************************************************************)
(* Spec: one run of the root command (rootCmd.Run)                         *)
(***************************************************************************)
ifEmpty(val, fallback) == IF TrimSpace(val) = <<>> THEN fallback ELSE val

ifZero(val, fallback) == IF val = 0 THEN fallback ELSE val

\* the provider names printed after an unknown provider
SupportedProviders == <<STR_openai, STR_openai_compat, STR_anthropic, STR_gemini>>

UnknownProviderMessage(name) ==
  <<"unknown provider: ">> \o name \o <<"\n", "Supported providers: ">>
  \o Join(SupportedProviders, <<", ">>) \o <<"\n">>

Init ==
  /\ pc = "run_select"
  /\ flags \in RunFlags
  /\ format \in RunFormats
  /\ message = <<"Q">>
  /\ properties = <<>>
  /\ parseErr = Nil
  /\ prov = "nil"
  /\ opts = NoOptions
  /\ payload = <<>>
  /\ stdout = <<>>
  /\ stderr = <<>>
  /\ exitCode = -1
  /\ baseURL \in RunBaseURLs
  /\ reqOpts = NoRequestOptions
  /\ env \in Environments
  /\ NothingSent

\* fmt.Print... followed by os.Exit(1)
PrintAndExit(text) ==
  /\ stdout' = stdout \o text
  /\ exitCode' = 1
  /\ pc' = "exited"
  /\ UNCHANGED stderr

\* prov, err := provider.New(providerName)
RunSelectProvider ==
  /\ pc = "run_select"
  /\ IF New(flags.provider).err # Nil
     THEN /\ PrintAndExit(UnknownProviderMessage(flags.provider))
          /\ UNCHANGED prov
     ELSE /\ prov' = New(flags.provider).prov
          /\ pc' = "run_format"
          /\ UNCHANGED ioVars
  /\ UNCHANGED <<parseVars, flags, message, opts, payload, payload2, callVars, reqVars, respVars>>

\* properties, err := parser.ParseFormat(format), then the --error-key and --only checks
RunParseFormat ==
  /\ pc = "run_format"
  /\ parseErr' = ParseFormat(format).err
  /\ IF ParseFormat(format).err # Nil
     THEN /\ PrintAndExit(<<"failed to parse format: ", ParseFormat(format).err.msg, ": ">>
                          \o ParseFormat(format).err.arg \o <<"\n">>)
          /\ properties' = <<>>
     ELSE /\ properties' = ParseFormat(format).properties
          /\ IF /\ TrimSpace(flags.errorKey) # <<>>
                /\ flags.errorKey # STR_error
                /\ flags.errorKey \notin DOMAIN ParseFormat(format).properties
             THEN PrintAndExit(<<"--error-key ">> \o flags.errorKey
                    \o <<" not found in --format schema. Include it in --format.\n">>)
             ELSE IF /\ TrimSpace(flags.onlyKey) # <<>>
                     /\ flags.onlyKey \notin DOMAIN ParseFormat(format).properties
             THEN PrintAndExit(<<"--only ">> \o flags.onlyKey
                    \o <<" not found in --format schema. Include it in --format.\n">>)
             ELSE /\ pc' = "run_payload"
                  /\ UNCHANGED ioVars
  /\ UNCHANGED <<format, flags, message, prov, opts, payload, payload2, callVars, reqVars, respVars>>

\* the Options literal passed to prov.BuildAPIPayload
RunOptions ==
  [Model |-> ifEmpty(flags.model, DefaultOptions(prov).Model),
   Instructions |-> flags.instructions,
   Message |-> message,
   Verbosity |-> "low",
   ReasoningEffort |-> "minimal",
   Properties |-> properties,
   MaxTokens |-> ifZero(flags.maxTokens, DefaultOptions(prov).MaxTokens)]

\* payload, err := prov.BuildAPIPayload(...), then the verbose dump of the payload
RunBuildPayload ==
  /\ pc = "run_payload"
  /\ opts' = RunOptions
  /\ payload' \in BuildAPIPayload(prov, RunOptions)
  /\ stderr' = IF flags.verbose
               THEN stderr \o <<"[llmx] Request payload:", "\n", ToString(payload'), "\n">>
               ELSE stderr
  /\ pc' = "run_request"
  /\ UNCHANGED <<parseVars, flags, message, prov, stdout, exitCode, payload2, callVars, reqVars, respVars>>

\* mutant of HasSchemeAndHost: every text passes for a URL
HasSchemeAndHost_Any(u) == TRUE

\* url.Parse(baseURL) gave a scheme and a host
HasSchemeAndHost(u) ==
  LET i == Index(u, ":")
  IN /\ i > 1
     /\ Len(u) >= i + 3
     /\ u[i + 1] = "/"
     /\ u[i + 2] = "/"
     /\ u[i + 3] # "/"

\* the *url.Error http.Client.Do returns: Op, the request URL and the cause
URLError(req, cause) == [msg |-> "url.Error", URL |-> URLString(req), cause |-> cause]

\* err.Error()
ErrorText(err) ==
  IF err.msg = "MissingAPIKeyError"
  THEN err.Provider \o <<": ">> \o err.EnvVar \o <<" is not set">>
  ELSE IF err.msg = "url.Error"
  THEN <<"Post ", "\"">> \o err.URL \o <<"\"", ": ", err.cause>>
  ELSE <<err.msg>>

\* the guidance printed for a MissingAPIKeyError
MissingKeyGuidance(name) ==
  name \o <<" not found. Set one of:", "\n", "  bash/zsh: export ">> \o name
  \o <<"=sk-...", "\n", "  fish:    set -x ">> \o name \o <<" sk-...", "\n">>

\* the URL printed by --verbose: the key parameter is replaced before encoding
SafeURL(req) ==
  req.url \o (IF "key" \in DOMAIN req.query
              THEN <<"?", "k", "e", "y", "=">> \o QueryEscape(<<"*", "*", "*">>) ELSE <<>>)

\* one line of the header dump; the credential headers are masked
HeaderLine(req, k) ==
  IF k \in {"Authorization", "X-Api-Key"}
  THEN <<"  ", k, ": ***", "\n">>
  ELSE <<"  ", k, ": ">> \o req.header[k] \o <<"\n">>

RECURSIVE HeaderLines(_, _)
HeaderLines(req, order) ==
  IF order = <<>> THEN <<>>
  ELSE HeaderLine(req, Head(order)) \o HeaderLines(req, Tail(order))

\* the request log of --verbose; order is the iteration order of req.Header
RequestLog(req, order) ==
  <<"[llmx] Request: ", req.method, " ">> \o SafeURL(req) \o <<"\n">>
  \o <<"[llmx] Headers:", "\n">> \o HeaderLines(req, order)

\* the --base-url check, prov.BuildAPIRequest(payload, baseURL, RequestOptions{}),
\* its error report and the request log
RunBuildRequest ==
  /\ pc = "run_request"
  /\ IF TrimSpace(baseURL) # <<>> /\ ~HasSchemeAndHost(baseURL)
     THEN /\ PrintAndExit(<<"invalid --base-url: ", "\"">> \o baseURL
                          \o <<"\"", "\n", "Use a full URL like https://api.example.com", "\n">>)
          /\ UNCHANGED <<payload, reqVars>>
     ELSE LET r == BuildAPIRequest(prov, payload, baseURL, reqOpts, env, <<>>)
          IN /\ payload' = r.payload
             /\ request' = r.req
             /\ reqErr' = r.err
             /\ IF r.err # Nil
                THEN IF IsErrMissingAPIKey(r.err)
                     THEN PrintAndExit(MissingKeyGuidance(
                            IF TrimSpace(r.err.EnvVar) = <<>>
                            THEN <<"API_KEY">> ELSE TrimSpace(r.err.EnvVar)))
                     ELSE PrintAndExit(ErrorText(r.err) \o <<"\n">>)
                ELSE /\ pc' = "run_do"
                     /\ \E order \in RangeOrders(DOMAIN r.req.header) :
                          stderr' = IF flags.verbose
                                    THEN stderr \o RequestLog(r.req, order) ELSE stderr
                     /\ UNCHANGED <<stdout, exitCode>>
  /\ UNCHANGED <<parseVars, flags, message, prov, opts, payload2, callVars, respVars>>

\* the body a server sends to carry one output text
Envelope(p, text) ==
  IF p = "OpenAIProvider" THEN [output_text |-> text]
  ELSE IF p = "AnthropicProvider" THEN [content |-> <<[type |-> "text", text |-> text]>>]
  ELSE IF p = "OpenAICompatProvider" THEN [choices |-> <<[message |-> [content |-> text]]>>]
  ELSE [candidates |-> <<[content |-> [parts |-> <<[text |-> text]>>]]>>]

\* string(respBody)
BodyText(body) == <<ToString(body)>>

\* what http.DefaultClient.Do and io.ReadAll can give for one request
HTTPOutcomes(p) ==
  {[kind |-> "transport", opError |-> TRUE, cause |-> "dial tcp: connect: connection refused"],
   [kind |-> "transport", opError |-> FALSE, cause |-> "tls: handshake failure"],
   [kind |-> "read"],
   [kind |-> "response", status |-> 500, body |-> JSONBody(Envelope(p, DOC_a_x.text))],
   [kind |-> "response", status |-> 404, body |-> InvalidBody],
   [kind |-> "response", status |-> 200, body |-> InvalidBody],
   [kind |-> "response", status |-> 200, body |-> JSONBody(<<>>)]}
  \cup {[kind |-> "response", status |-> 200, body |-> JSONBody(Envelope(p, t))] :
          t \in {d.text : d \in JSONDocs} \cup {<<"plain text">>}}

\* the response log of --verbose (the enumerated bodies are below the dump limit)
ResponseLog(r) ==
  <<"[llmx] Response status: ", ToString(r.status), "\n", "[llmx] Raw response:", "\n">>
  \o BodyText(r.body) \o <<"\n">>

\* resp, err := http.DefaultClient.Do(req), io.ReadAll(resp.Body) and the response log
RunDo ==
  /\ pc = "run_do"
  /\ httpCalls' = httpCalls + 1
  /\ \E o \in HTTPOutcomes(prov) :
       IF o.kind = "transport"
       THEN /\ PrintAndExit(
                 IF o.opError
                 THEN <<"network error: ">> \o ErrorText(URLError(request, o.cause))
                      \o <<"\n", "Check connectivity and --base-url (if set).", "\n">>
                 ELSE <<"request failed:", " ">> \o ErrorText(URLError(request, o.cause))
                      \o <<"\n">>)
            /\ UNCHANGED resp
       ELSE IF o.kind = "read"
       THEN /\ PrintAndExit(<<"failed to read response:", " ", "unexpected EOF", "\n">>)
            /\ UNCHANGED resp
       ELSE /\ resp' = [status |-> o.status, body |-> o.body]
            /\ stderr' = IF flags.verbose
                         THEN stderr \o ResponseLog([status |-> o.status, body |-> o.body])
                         ELSE stderr
            /\ pc' = "run_status"
            /\ UNCHANGED <<stdout, exitCode>>
  /\ UNCHANGED <<parseVars, flags, message, prov, opts, payload, payload2, callVars, reqVars,
                 textOut, respErr>>

\* mutant of NonSuccessStatus: only the server errors fail
NonSuccessStatus_ServerOnly(code) == code >= 500

\* resp.StatusCode < 200 || resp.StatusCode >= 300
NonSuccessStatus(code) == code < 200 \/ code >= 300

\* the non-2xx check
RunCheckStatus ==
  /\ pc = "run_status"
  /\ IF NonSuccessStatus(resp.status)
     THEN PrintAndExit(<<"request failed with status ", ToString(resp.status), ":", "\n">>
                       \o BodyText(resp.body) \o <<"\n">>)
     ELSE /\ pc' = "run_parse"
          /\ UNCHANGED ioVars
  /\ UNCHANGED <<parseVars, flags, message, prov, opts, payload, payload2, callVars, reqVars,
                 respVars>>

\* textOut, err := prov.ParseAPIResponse(respBody)
RunParseResponse ==
  /\ pc = "run_parse"
  /\ textOut' = ParseAPIResponse(prov, resp.body).text
  /\ respErr' = ParseAPIResponse(prov, resp.body).err
  /\ IF ParseAPIResponse(prov, resp.body).err # Nil
     THEN PrintAndExit(ErrorText(ParseAPIResponse(prov, resp.body).err) \o <<"\n">>)
     ELSE /\ pc' = "run_gate"
          /\ UNCHANGED ioVars
  /\ UNCHANGED <<parseVars, flags, message, prov, opts, payload, payload2, callVars, reqVars,
                 httpCalls, resp>>

\* mutant of GateText: the error string is taken as it is
GateText_Raw(v) == IF v.kind = "string" THEN v.str ELSE <<>>

\* es, ok := ev.(string); es = strings.TrimSpace(es)
GateText(v) == IF v.kind = "string" THEN TrimSpace(v.str) ELSE <<>>

\* mutant of Gates: the error field never stops the command
Gates_Never(v) == FALSE

\* ok && es != "" && es != "null"
Gates(v) == v.kind = "string" /\ GateText(v) # <<>> /\ GateText(v) # <<"n", "u", "l", "l">>

\* the JSON decode of the output text and the error gate
RunErrorGate ==
  /\ pc = "run_gate"
  /\ LET d == UnmarshalObject(textOut)
     IN IF ~d.ok
        THEN /\ exitCode' = 1
             /\ pc' = "exited"
             /\ UNCHANGED <<stdout, stderr>>
        ELSE IF flags.errorKey \in DOMAIN d.obj /\ Gates(d.obj[flags.errorKey])
        THEN /\ stderr' = stderr \o GateText(d.obj[flags.errorKey]) \o <<"\n">>
             /\ exitCode' = 1
             /\ pc' = "exited"
             /\ UNCHANGED stdout
        ELSE /\ pc' = "run_output"
             /\ UNCHANGED ioVars
  /\ UNCHANGED <<parseVars, flags, message, prov, opts, payload, payload2, callVars, reqVars,
                 respVars>>

\* mutant of OnlyText: every value goes through json.Marshal
OnlyText_Marshalled(v) == IF v.kind = "string" THEN <<"\"">> \o v.str \o <<"\"">> ELSE MarshalValue(v)

\* the type switch on the value of the --only key
OnlyText(v) == IF v.kind = "string" THEN v.str ELSE MarshalValue(v)

\* the final newline
EnsureNewline(t) == IF HasSuffix(t, <<"\n">>) THEN t ELSE t \o <<"\n">>

\* the --only extraction and the final print
RunOutput ==
  /\ pc = "run_output"
  /\ LET obj == UnmarshalObject(textOut).obj
     IN IF TrimSpace(flags.onlyKey) # <<>> /\ flags.onlyKey \notin DOMAIN obj
        THEN /\ PrintAndExit(<<"key not found: ">> \o flags.onlyKey \o <<"\n">>)
             /\ UNCHANGED textOut
        ELSE /\ textOut' = EnsureNewline(IF TrimSpace(flags.onlyKey) # <<>>
                                         THEN OnlyText(obj[flags.onlyKey]) ELSE textOut)
             /\ stdout' = stdout \o textOut'
             /\ exitCode' = 0
             /\ pc' = "done"
             /\ UNCHANGED stderr
  /\ UNCHANGED <<parseVars, flags, message, prov, opts, payload, payload2, callVars, reqVars,
                 httpCalls, resp, respErr>>

Next ==
  \/ RunSelectProvider
  \/ RunParseFormat
  \/ RunBuildPayload
  \/ RunBuildRequest
  \/ RunDo
  \/ RunCheckStatus
  \/ RunParseResponse
  \/ RunErrorGate
  \/ RunOutput

Spec == Init /\ [][Next]_vars

(***************************************************************************)
(* The shorthand grammar as the specification words it, read off the raw   *)
(* text of a pair (used by the properties below, not by the model)         *)
(***************************************************************************)
\* strings.HasPrefix
HasPrefix(s, pre) == Len(s) >= Len(pre) /\ SubSeq(s, 1, Len(pre)) = pre

\* the text before the first colon, trimmed
SpecKey(pair) ==
  IF Contains(pair, ":") THEN TrimSpace(SubSeq(pair, 1, Index(pair, ":") - 1))
  ELSE TrimSpace(pair)

\* the text after the first colon (empty when the pair has no colon)
SpecTypePortion(pair) ==
  IF Contains(pair, ":") THEN SubSeq(pair, Index(pair, ":") + 1, Len(pair)) ELSE <<>>

SpecType(pair) == TrimSpace(SpecTypePortion(pair))

\* the field a valid pair declares
SpecDeclared(pair) ==
  LET t == SpecType(pair)
  IN IF t = <<>> THEN [type |-> STR_string]
     ELSE IF HasSuffix(t, STR_brackets)
       THEN [type |-> STR_array,
             items |-> [type |-> TrimSpace(SubSeq(t, 1, Len(t) - 2))]]
     ELSE [type |-> t]

ViolatesA(pair) == TrimSpace(pair) = <<>>
ViolatesB(pair) == SpecKey(pair) = <<>>
ViolatesC(pair) == Contains(SpecTypePortion(pair), ":")
ViolatesD(pair) == SpecType(pair) = STR_brackets
\* (e) as worded: what is left when one trailing [] is removed ends in []
ViolatesEAsWorded(pair) ==
  /\ HasSuffix(SpecType(pair), STR_brackets)
  /\ HasSuffix(SubSeq(SpecType(pair), 1, Len(SpecType(pair)) - 2), STR_brackets)
\* (e) with the remainder trimmed before it is looked at
ViolatesETrimmed(pair) ==
  /\ HasSuffix(SpecType(pair), STR_brackets)
  /\ HasSuffix(TrimSpace(SubSeq(SpecType(pair), 1, Len(SpecType(pair)) - 2)), STR_brackets)

InputPairs == Split(format, ",")

ParsedNonEmpty == pc = "parse_done" /\ format # <<>>
ParsedOK == ParsedNonEmpty /\ parseErr = Nil

\* the last pair that declares key k
LastPairOf(k) ==
  CHOOSE i \in 1..Len(InputPairs) :
    /\ SpecKey(InputPairs[i]) = k
    /\ \A j \in (i + 1)..Len(InputPairs) : SpecKey(InputPairs[j]) # k

(***************************************************************************)
(* C1 (as worded): a non-empty shorthand string is rejected exactly when   *)
(* one of its pairs is blank, has an empty key, has a second colon, has    *)
(* the type [], or has a type that still ends in [] once one trailing []   *)
(* is removed.                                                             *)
(***************************************************************************)
C1_ErrorIffViolationAsWorded ==
  ParsedNonEmpty =>
    ((parseErr # Nil) <=>
      \E i \in 1..Len(InputPairs) :
        \/ ViolatesA(InputPairs[i]) \/ ViolatesB(InputPairs[i])
        \/ ViolatesC(InputPairs[i]) \/ ViolatesD(InputPairs[i])
        \/ ViolatesEAsWorded(InputPairs[i]))

(***************************************************************************)
(* C1 (amended): as above, with (e) reading "has a type whose remainder,   *)
(* after one trailing [] is removed and the remainder is trimmed, still    *)
(* ends in []".                                                            *)
(***************************************************************************)
C1_ErrorIffViolation ==
  ParsedNonEmpty =>
    ((parseErr # Nil) <=>
      \E i \in 1..Len(InputPairs) :
        \/ ViolatesA(InputPairs[i]) \/ ViolatesB(InputPairs[i])
        \/ ViolatesC(InputPairs[i]) \/ ViolatesD(InputPairs[i])
        \/ ViolatesETrimmed(InputPairs[i]))

C1_Witness ==
  /\ ParsedNonEmpty
  /\ parseErr # Nil
  /\ parseErr.msg = "nested array types are not supported"
  /\ \E i \in 1..Len(InputPairs) :
       ViolatesETrimmed(InputPairs[i]) /\ ~ViolatesEAsWorded(InputPairs[i])

(***************************************************************************)
(* C2: ParseFormat of the empty string returns an empty field set (no      *)
(* built-in message field) and no error.                                   *)
(***************************************************************************)
C2_EmptyFormatEmptySet ==
  (pc = "parse_done" /\ format = <<>>) => (properties = <<>> /\ parseErr = Nil)

(***************************************************************************)
(* C3: every non-error result has non-empty field names, and every field   *)
(* of kind array carries a non-empty element kind that is not an array.    *)
(***************************************************************************)
C3_ArrayFieldsCarryElementKind ==
  (pc = "parse_done" /\ parseErr = Nil) =>
    \A k \in DOMAIN properties :
      /\ k # <<>>
      /\ properties[k].type = STR_array =>
           /\ "items" \in DOMAIN properties[k]
           /\ properties[k].items.type # <<>>
           /\ properties[k].items.type # STR_array
           /\ ~HasSuffix(properties[k].items.type, STR_brackets)

(***************************************************************************)
(* C4: when a key occurs in several pairs of a valid string, the result    *)
(* has one field of that name, with the kind and element kind of the last  *)
(* such pair and nothing of the earlier ones.                              *)
(***************************************************************************)
C4_LastDeclarationWins ==
  ParsedOK =>
    /\ DOMAIN properties = {SpecKey(InputPairs[i]) : i \in 1..Len(InputPairs)}
    /\ \A k \in DOMAIN properties :
         properties[k] = SpecDeclared(InputPairs[LastPairOf(k)])

C4_Witness ==
  /\ ParsedOK
  /\ \E i, j \in 1..Len(InputPairs) :
       /\ i < j
       /\ SpecKey(InputPairs[i]) = SpecKey(InputPairs[j])
       /\ "items" \in DOMAIN SpecDeclared(InputPairs[i])
       /\ LastPairOf(SpecKey(InputPairs[j])) = j
       /\ properties[SpecKey(InputPairs[j])] = [type |-> STR_integer]

(***************************************************************************)
(* C5: a valid pair whose type does not end in [] gets kind string when it *)
(* has no colon or a blank type, and the trimmed type text verbatim        *)
(* otherwise; whitespace around key and type does not change the result.   *)
(***************************************************************************)
\* the pair with the whitespace around its key and its type removed
SpecStripPair(pair) ==
  IF Contains(pair, ":") THEN SpecKey(pair) \o <<":">> \o SpecType(pair)
  ELSE SpecKey(pair)

SpecStripFormat(f) ==
  Join([i \in 1..Len(Split(f, ",")) |-> SpecStripPair(Split(f, ",")[i])], <<",">>)

C5_ScalarKindResolution ==
  ParsedOK =>
    /\ \A i \in 1..Len(InputPairs) :
         LET pair == InputPairs[i]
             k == SpecKey(pair)
         IN (LastPairOf(k) = i /\ ~HasSuffix(SpecType(pair), STR_brackets)) =>
              properties[k] =
                [type |-> IF ~Contains(pair, ":") \/ TrimSpace(SpecTypePortion(pair)) = <<>>
                          THEN STR_string
                          ELSE TrimSpace(SpecTypePortion(pair))]
    /\ ParseFormat(SpecStripFormat(format)).err = Nil
    /\ ParseFormat(SpecStripFormat(format)).properties = properties

C5_Witness ==
  /\ ParsedOK
  /\ \E i \in 1..Len(InputPairs) :
       /\ InputPairs[i] = <<" ", "a", " ", ":", " ">> \o STR_foo \o <<" ">>
       /\ LastPairOf(<<"a">>) = i
  /\ properties[<<"a">>] = [type |-> STR_foo]

(***************************************************************************)
(* C6: a pair whose type is written array[elementType] is a parse error.   *)
(***************************************************************************)
C6_LegacyArrayRejected ==
  (ParsedNonEmpty /\ \E i \in 1..Len(InputPairs) :
      /\ HasPrefix(SpecType(InputPairs[i]), STR_array \o <<"[">>)
      /\ HasSuffix(SpecType(InputPairs[i]), <<"]">>)
      /\ TrimSpace(SubSeq(SpecType(InputPairs[i]), 7, Len(SpecType(InputPairs[i])) - 1)) # <<>>)
    => parseErr # Nil

(***************************************************************************)
(* C7: provider.New selects by exact, case-sensitive match on a name or    *)
(* alias; any other name gives the unknown-provider failure: no provider,  *)
(* exit status 1, and a report that lists the known provider names.        *)
(***************************************************************************)
\* the text that follows the first occurrence of a literal in a stream
AfterLiteral(text, literal) ==
  IF Contains(text, literal) THEN SubSeq(text, Index(text, literal) + 1, Len(text)) ELSE <<>>

BuiltFor(p) == pc = "payload_done" /\ prov = p

\* C8: the OpenAI strict schema requires exactly the field names and forbids
\* additional properties
C8_OpenAIStrictSchema ==
  (BuiltFor("OpenAIProvider") /\ DOMAIN opts.Properties # {}) =>
    /\ "format" \in DOMAIN payload.text
    /\ payload.text.format.type = "json_schema"
    /\ payload.text.format.strict = TRUE
    /\ payload.text.format.schema.type = "object"
    /\ Elems(payload.text.format.schema.required) = DOMAIN opts.Properties
    /\ Len(payload.text.format.schema.required) = Cardinality(DOMAIN opts.Properties)
    /\ payload.text.format.schema.additionalProperties = FALSE
    /\ payload.text.format.schema.properties = opts.Properties

C8_Witness ==
  /\ BuiltFor("OpenAIProvider")
  /\ Cardinality(DOMAIN opts.Properties) = 3
  /\ "format" \in DOMAIN payload.text
  /\ payload.text.format.schema.required[1] = <<"c">>

(***************************************************************************)
(* C9: for a non-empty field set, the Gemini responseSchema is an OBJECT   *)
(* schema where each field has its upper-cased type tag, each array field  *)
(* is ARRAY with an items sub-schema of the upper-cased element tag, and   *)
(* required names exactly the fields of properties.                        *)
(***************************************************************************)
C9_GeminiResponseSchema ==
  (BuiltFor("GeminiProvider") /\ DOMAIN opts.Properties # {}) =>
    /\ "generationConfig" \in DOMAIN payload
    /\ "responseSchema" \in DOMAIN payload.generationConfig
    /\ LET rs == payload.generationConfig.responseSchema
       IN /\ rs.type = STR_OBJECT
          /\ DOMAIN rs.properties = DOMAIN opts.Properties
          /\ Elems(rs.required) = DOMAIN rs.properties
          /\ Len(rs.required) = Cardinality(DOMAIN rs.properties)
          /\ \A k \in DOMAIN opts.Properties :
               /\ rs.properties[k].type = ToUpper(opts.Properties[k].type)
               /\ opts.Properties[k].type = STR_array =>
                    /\ rs.properties[k].type = STR_ARRAY
                    /\ "items" \in DOMAIN rs.properties[k]
                    /\ "items" \in DOMAIN opts.Properties[k]
                    /\ rs.properties[k].items.type = ToUpper(opts.Properties[k].items.type)

(***************************************************************************)
(* C10: for a non-empty field set the Anthropic system string lists every  *)
(* field name in ascending order whatever the declaration order; the       *)
(* schema block follows the instructions when there are any; with no       *)
(* fields and no instructions there is no system entry.                    *)
(***************************************************************************)
HintHead == "Return only a strict JSON object with keys "
HintAfterKeys == ". No prose, no explanations, no markdown. "

\* the text between the two literals that enclose the key list
KeyListing(system) ==
  SubSeq(system, Index(system, HintHead) + 1, Index(system, HintAfterKeys) - 1)

\* the names of S in ascending order
AscendingOrder(S) ==
  CHOOSE f \in RangeOrders(S) :
    \A i, j \in 1..Cardinality(S) : i < j => StrLess(f[i], f[j])

SystemListsSortedNames ==
  (DOMAIN opts.Properties # {}) =>
    /\ "system" \in DOMAIN payload
    /\ Contains(payload.system, HintHead)
    /\ Contains(payload.system, HintAfterKeys)
    /\ KeyListing(payload.system) = Join(AscendingOrder(DOMAIN opts.Properties), <<", ">>)
    /\ \A k \in DOMAIN opts.Properties : ContainsStr(payload.system, k)

BlockFollows(instr) ==
  /\ HasPrefix(payload.system, instr)
  /\ Index(payload.system, HintHead) > Len(instr)

NoSystemWithoutFieldsAndInstructions ==
  (DOMAIN opts.Properties = {} /\ opts.Instructions = <<>>) => "system" \notin DOMAIN payload

\* C10 as worded: sorted names; the block follows the instructions whenever
\* they are non-empty; no system entry without fields and instructions
C10_SystemAsWorded ==
  BuiltFor("AnthropicProvider") =>
    /\ SystemListsSortedNames
    /\ (DOMAIN opts.Properties # {} /\ opts.Instructions # <<>>) =>
         BlockFollows(opts.Instructions)
    /\ NoSystemWithoutFieldsAndInstructions

\* C10 amended: the block follows instructions that are not blank; blank
\* (empty or whitespace-only) instructions are left out and the system
\* string is the block alone
C10_SystemListsSortedNames ==
  BuiltFor("AnthropicProvider") =>
    /\ SystemListsSortedNames
    /\ (DOMAIN opts.Properties # {} /\ TrimSpace(opts.Instructions) # <<>>) =>
         BlockFollows(opts.Instructions)
    /\ (DOMAIN opts.Properties # {} /\ TrimSpace(opts.Instructions) = <<>>) =>
         Head(payload.system) = HintHead
    /\ NoSystemWithoutFieldsAndInstructions

C10_Witness ==
  /\ BuiltFor("AnthropicProvider")
  /\ DOMAIN opts.Properties = {<<"a">>, <<"b">>, <<"c">>}
  /\ opts.Instructions = <<"h", "i">>
  /\ KeyListing(payload.system) = <<"a", ", ", "b", ", ", "c">>

(***************************************************************************)
(* C11: BuildAPIPayload is deterministic for every provider: two calls     *)
(* with equal Options give payloads that serialize to the same request     *)
(* body, every list (such as the schema's required list) in the same order.*)
(***************************************************************************)
C11_DeterministicPayload ==
  pc = "payload_twice" => Marshal(payload) = Marshal(payload2)

(***************************************************************************)
(* C12: BuildAPIPayload of every provider, and a later BuildAPIRequest on  *)
(* the returned payload, leave the caller's Options as they were, the      *)
(* contents of its Properties map included.                                *)
(***************************************************************************)
C12_OptionsUnchanged == [][opts' = opts]_vars

\* a request was built from an OpenAI payload that holds the caller's map
C12_Witness ==
  /\ pc = "request_done"
  /\ prov = "OpenAIProvider"
  /\ reqErr = Nil
  /\ Cardinality(DOMAIN opts.Properties) = 2
  /\ payload.text.format.schema.properties = opts.Properties

\* the environment variable each provider is documented to read
ExpectedEnvVar(p) ==
  IF p = "AnthropicProvider" THEN STR_ANTHROPIC_API_KEY
  ELSE IF p = "GeminiProvider" THEN STR_GEMINI_API_KEY
  ELSE STR_OPENAI_API_KEY

\* the places of a request that can carry the credential
CredentialTexts(req) ==
  {req.header[h] : h \in DOMAIN req.header} \cup {req.query[q] : q \in DOMAIN req.query}

NoKeyAnywhere == reqOpts.APIKey = <<>> /\ Getenv(env, ExpectedEnvVar(prov)) = <<>>

(***************************************************************************)
(* C13: for every provider, BuildAPIRequest without a supplied key and     *)
(* without the provider's environment variable fails with the              *)
(* missing-credential error (it matches ErrMissingAPIKey and carries the   *)
(* variable's name), and a supplied key is used in preference to the       *)
(* environment variable.                                                   *)
(***************************************************************************)
C13_MissingKeyIsDistinguishable ==
  pc = "request_done" =>
    /\ NoKeyAnywhere =>
         /\ request = NoRequest
         /\ IsErrMissingAPIKey(reqErr)
         /\ reqErr.EnvVar = ExpectedEnvVar(prov)
    /\ (reqOpts.APIKey # <<>> /\ reqErr = Nil) =>
         /\ \E t \in CredentialTexts(request) : HasSuffix(t, reqOpts.APIKey)
         /\ \A t \in CredentialTexts(request) : ~HasSuffix(t, KEY_ENV)

\* the base URL a request is sent to: the given one, a trailing slash not
\* repeated, or the provider's default
GeminiExpectedBase == IF baseURL = <<>> THEN STR_gemini_base ELSE TrimRightSlash(baseURL)

\* the key a request has to carry
ExpectedKey == IF reqOpts.APIKey # <<>> THEN reqOpts.APIKey ELSE Getenv(env, ExpectedEnvVar(prov))

(***************************************************************************)
(* C15: GeminiProvider.BuildAPIRequest produces a POST whose URL path is   *)
(* {baseURL or default}/v1beta/models/{model}:generateContent, whose body  *)
(* has no model entry and whose credential is the key query parameter and  *)
(* appears in no header; a payload with an empty or missing model yields   *)
(* an error and no request.                                                *)
(***************************************************************************)
C15_GeminiRequestShape ==
  (prov = "GeminiProvider" /\ pc \in {"request_done", "request_twice"}) =>
    /\ reqErr = Nil =>
         /\ request.method = "POST"
         /\ request.url = GeminiExpectedBase \o STR_v1beta_models \o opts.Model
                          \o STR_generateContent
         /\ "model" \notin DOMAIN request.body.json
         /\ request.query = [key |-> ExpectedKey]
         /\ \A h \in DOMAIN request.header : ~ContainsStr(request.header[h], ExpectedKey)
    /\ (pc = "request_done" /\ opts.Model = <<>>) => (reqErr # Nil /\ request = NoRequest)
    /\ pc = "request_twice" => (reqErr # Nil /\ request = NoRequest)

\* a request was built for a base URL with a trailing slash and a supplied key
C15_Witness ==
  /\ prov = "GeminiProvider"
  /\ pc = "request_done"
  /\ reqErr = Nil
  /\ baseURL = STR_http_h_slash
  /\ request.query = [key |-> KEY_FLAG]
  /\ DOMAIN request.header = {"Content-Type", "Accept", "X-Trace"}

\* a call of ParseAPIResponse of provider p has returned
ParsedFor(p) == pc = "response_done" /\ prov = p

\* every content block of every output item, in document order
RECURSIVE AllBlocks(_)
AllBlocks(output) ==
  IF output = <<>> THEN <<>> ELSE Head(output).content \o AllBlocks(Tail(output))

\* the text of the first block that satisfies Match, empty when there is none
FirstText(blocks, Match(_)) ==
  IF \E i \in DOMAIN blocks : Match(blocks[i])
  THEN blocks[CHOOSE i \in DOMAIN blocks :
                /\ Match(blocks[i])
                /\ \A j \in 1..(i - 1) : ~Match(blocks[j])].text
  ELSE <<>>

IsOutputText(b) == b.type = "output_text"

IsFilledOutputText(b) == b.type = "output_text" /\ b.text # <<>>

\* the common part of C16: invalid bytes fail, a non-empty top-level
\* output_text wins, otherwise the blocks decide
OpenAIResultIs(Match(_)) ==
  ParsedFor("OpenAIProvider") =>
    IF ~resp.body.valid THEN respErr # Nil
    ELSE /\ respErr = Nil
         /\ textOut = IF Field(resp.body.doc, "output_text", <<>>) # <<>>
                      THEN resp.body.doc.output_text
                      ELSE FirstText(AllBlocks(Field(resp.body.doc, "output", <<>>)), Match)

RECURSIVE JoinedTexts(_)
JoinedTexts(parts) ==
  IF parts = <<>> THEN <<>> ELSE Head(parts).text \o JoinedTexts(Tail(parts))

(***************************************************************************)
(* C17: GeminiProvider.ParseAPIResponse returns the in-order concatenation *)
(* of the text of every part of the first candidate only; text of later    *)
(* candidates never appears; without candidates the result is the empty    *)
(* string and no error.                                                    *)
(***************************************************************************)
C17_FirstCandidateOnly ==
  (ParsedFor("GeminiProvider") /\ resp.body.valid) =>
    /\ respErr = Nil
    /\ textOut = IF Len(Field(resp.body.doc, "candidates", <<>>)) = 0 THEN <<>>
                 ELSE JoinedTexts(resp.body.doc.candidates[1].content.parts)

\* two parts of the first candidate are joined, the second candidate is left out
C17_Witness ==
  /\ ParsedFor("GeminiProvider")
  /\ resp.body.valid
  /\ Len(Field(resp.body.doc, "candidates", <<>>)) = 2
  /\ resp.body.doc.candidates[1].content.parts = <<[text |-> <<"x">>], [text |-> <<"y">>]>>
  /\ resp.body.doc.candidates[2].content.parts = <<[text |-> <<"y">>]>>
  /\ textOut = <<"x", "y">>

\* valid JSON that carries no content
CarriesNoContent(body) ==
  /\ body.valid
  /\ \/ body.doc = <<>>
     \/ \E name \in {"output", "choices", "candidates", "content"} :
          DOMAIN body.doc = {name} /\ body.doc[name] = <<>>

(***************************************************************************)
(* C18: for every Provider implementation (OpenAI, OpenAI-compatible chat, *)
(* Anthropic, Gemini), ParseAPIResponse of structurally valid JSON that    *)
(* carries no content returns the empty string and no error.               *)
(***************************************************************************)
C18_EmptyResponseIsEmptyText ==
  (pc = "response_done" /\ CarriesNoContent(resp.body)) =>
    (textOut = <<>> /\ respErr = Nil)

(***************************************************************************)
(* C14: nothing an invocation prints contains the credential value: for    *)
(* every provider and every kind of failure (missing credential, request   *)
(* build, transport, non-2xx status, response parse) the text written is   *)
(* the same whatever the secret is, also for the provider that places the  *)
(* credential in the request URL.                                          *)
(***************************************************************************)
C14_NoSecretInOutput ==
  /\ ~ContainsStr(stdout, KEY_ENV)
  /\ ~ContainsStr(stderr, KEY_ENV)

\* the text the provider extracted from the response of a completed round trip
ResponseText == ParseAPIResponse(prov, resp.body).text

\* the round trip and the response parse succeeded and the command went on
ResponseParsed ==
  /\ pc \in {"run_output", "exited", "done"}
  /\ resp # NoResponse
  /\ resp.status >= 200
  /\ resp.status < 300
  /\ ParseAPIResponse(prov, resp.body).err = Nil

\* the value of a key of the decoded response text
ResponseHas(key) ==
  UnmarshalObject(ResponseText).ok /\ key \in DOMAIN UnmarshalObject(ResponseText).obj

ResponseValue(key) == UnmarshalObject(ResponseText).obj[key]

\* the response text is a JSON object (the JSON text null decodes into a nil map)
ResponseIsObject == UnmarshalObject(ResponseText).ok /\ ResponseText # DOC_null.text

\* the error field is a string that is neither empty nor exactly null
ErrorFieldSetAsWorded ==
  /\ ResponseHas(flags.errorKey)
  /\ ResponseValue(flags.errorKey).kind = "string"
  /\ ResponseValue(flags.errorKey).str \notin {<<>>, <<"n", "u", "l", "l">>}

\* the same after surrounding whitespace is removed
ErrorFieldSet ==
  /\ ResponseHas(flags.errorKey)
  /\ ResponseValue(flags.errorKey).kind = "string"
  /\ TrimSpace(ResponseValue(flags.errorKey).str) \notin {<<>>, <<"n", "u", "l", "l">>}

OnlyRequested == TrimSpace(flags.onlyKey) # <<>>

\* the four cases of the single-key output
SingleKeyOutput ==
  /\ ~ResponseIsObject =>
       /\ exitCode = 1
       /\ ~ContainsStr(stdout, ResponseText) \/ ResponseText = <<>>
  /\ (ResponseIsObject /\ ~ResponseHas(flags.onlyKey)) =>
       /\ exitCode = 1
       /\ stdout = <<"key not found: ">> \o flags.onlyKey \o <<"\n">>
  /\ (ResponseHas(flags.onlyKey) /\ ResponseValue(flags.onlyKey).kind = "string") =>
       /\ exitCode = 0
       /\ stdout = EnsureNewline(ResponseValue(flags.onlyKey).str)
  /\ (ResponseHas(flags.onlyKey) /\ ResponseValue(flags.onlyKey).kind # "string") =>
       /\ exitCode = 0
       /\ stdout = ResponseValue(flags.onlyKey).json \o <<"\n">>

FailureStatusSeen ==
  /\ resp # NoResponse
  /\ (resp.status < 200 \/ resp.status > 299)
  /\ pc # "run_status"

FullBaseURLs == {STR_http_h}

\* provider selection, shorthand parsing, option validation, payload building
\* and request building all succeed for the inputs of this run
StepsBeforeCallSucceed ==
  /\ New(flags.provider).err = Nil
  /\ ParseFormat(format).err = Nil
  /\ \/ TrimSpace(flags.errorKey) = <<>>
     \/ flags.errorKey = STR_error
     \/ flags.errorKey \in DOMAIN ParseFormat(format).properties
  /\ \/ TrimSpace(flags.onlyKey) = <<>>
     \/ flags.onlyKey \in DOMAIN ParseFormat(format).properties
  /\ (TrimSpace(baseURL) = <<>> \/ baseURL \in FullBaseURLs)
  /\ Getenv(env, ExpectedEnvVar(New(flags.provider).prov)) # <<>>

(***************************************************************************)
(* C22: in every execution of one invocation at most one outbound HTTP     *)
(* call is made: exactly one when provider selection, shorthand parsing,   *)
(* option validation, payload building and request building all succeed,   *)
(* none when any of those steps fails, and never a second call after a     *)
(* transport failure, a non-2xx status or a parse failure.                 *)
(***************************************************************************)
C22_AtMostOneCall ==
  /\ httpCalls \in {0, 1}
  /\ pc \in {"done", "exited"} => httpCalls = (IF StepsBeforeCallSucceed THEN 1 ELSE 0)

\* the command ended after a transport failure, having made its one call
C22_Witness ==
  /\ pc = "exited"
  /\ httpCalls = 1
  /\ resp = NoResponse
  /\ ContainsStr(stdout, <<"network error: ">>)

(***************************************************************************)
(* C23: every failure of an invocation (grammar error, unknown provider,   *)
(* missing credential, transport failure, non-2xx response,                *)
(* response-shape failure, model text that is not valid JSON, error-field  *)
(* gating) ends the invocation with a non-zero status and a message        *)
(* written to the diagnostic stream, with nothing written to the normal    *)
(* output stream.                                                          *)
(***************************************************************************)
C23_FailuresGoToStderr ==
  (pc = "exited" /\ exitCode # 0) =>
    /\ stdout = <<>>
    /\ stderr # <<>>

\* the default ceiling of the model family a name belongs to, as the
\* specification lists them, and 4096 for a name of no known family
FamilyCeiling(model) ==
  LET m == ToLower(model)
      Has(part) == ContainsStr(m, part)
  IN IF Has(<<"o", "p", "u", "s", "-", "4">>) THEN 32000
     ELSE IF Has(<<"s", "o", "n", "n", "e", "t", "-", "4">>) THEN 64000
     ELSE IF Has(<<"3", "-", "7", "-", "s", "o", "n", "n", "e", "t">>) THEN 64000
     ELSE IF Has(<<"3", "-", "5", "-", "s", "o", "n", "n", "e", "t">>) THEN 8192
     ELSE IF Has(<<"3", "-", "5", "-", "h", "a", "i", "k", "u">>) THEN 8192
     ELSE 4096

(***************************************************************************)
(* C24: when the caller names a model but gives no max-token value, the    *)
(* max_tokens of the Anthropic request is the default ceiling of the       *)
(* family of the model actually requested, and 4096 when the name matches  *)
(* no known family; a caller-supplied non-zero max-token value always      *)
(* overrides it.                                                           *)
(***************************************************************************)
C24_MaxTokensOfRequestedFamily ==
  (prov = "AnthropicProvider" /\ pc \notin {"run_select", "run_format", "run_payload"}
     /\ "max_tokens" \in DOMAIN payload) =>
    /\ flags.maxTokens # 0 => payload.max_tokens = flags.maxTokens
    /\ (flags.maxTokens = 0 /\ TrimSpace(flags.model) # <<>>) =>
         payload.max_tokens = FamilyCeiling(flags.model)

(***************************************************************************)
(* C25: the provider name openai-compat is accepted: selecting it yields   *)
(* the OpenAI-compatible Chat Completions provider and not an              *)
(* unknown-provider failure.                                               *)
(***************************************************************************)
C25_OpenAICompatAccepted ==
  (flags.provider = STR_openai_compat /\ pc # "run_select") =>
    /\ prov = "OpenAICompatProvider"
    /\ ~ContainsStr(stdout, <<"unknown provider: ">>)

(***************************************************************************)
(* C26: for every non-empty field set, the payload built by                *)
(* OpenAICompatProvider.BuildAPIPayload carries, besides the strict-JSON   *)
(* system hint, a response_format entry of type json_schema wrapping a     *)
(* schema named response built from the fields; the system message (when   *)
(* present) precedes the single user message, which is always last.        *)
(***************************************************************************)
C26_CompatResponseFormat ==
  BuiltFor("OpenAICompatProvider") =>
    /\ payload.messages[Len(payload.messages)] = [role |-> "user", content |-> opts.Message]
    /\ \A i \in 1..(Len(payload.messages) - 1) : payload.messages[i].role = "system"
    /\ Len(payload.messages) <= 2
    /\ DOMAIN opts.Properties # {} =>
         /\ payload.messages[1].role = "system"
         /\ ContainsStr(payload.messages[1].content,
                        <<"RETURN ONLY A STRICT JSON OBJECT. NO PROSE, NO MARKDOWN.\\n">>)
         /\ "response_format" \in DOMAIN payload
         /\ payload.response_format.type = "json_schema"
         /\ payload.response_format.json_schema.name = "response"
         /\ DOMAIN payload.response_format.json_schema.schema.properties
              = DOMAIN opts.Properties

(***************************************************************************)
(* C27: OpenAIProvider.BuildAPIPayload called with an empty Model produces *)
(* a payload whose model is the provider default gpt-5-nano.               *)
(***************************************************************************)
C27_OpenAIEmptyModelDefaults ==
  (BuiltFor("OpenAIProvider") /\ opts.Model = <<>>) => payload.model = STR_gpt_5_nano

(***************************************************************************)
(* C28: on every successful invocation the text written to the normal      *)
(* output stream ends with exactly one newline character, whatever the     *)
(* model text or the extracted value is (including text that already ends  *)
(* in one or more newlines, and the empty text).                           *)
(***************************************************************************)
C28_ExactlyOneFinalNewline ==
  (pc = "done" /\ exitCode = 0) =>
    /\ HasSuffix(stdout, <<"\n">>)
    /\ ~HasSuffix(stdout, <<"\n", "\n">>)

\* the response text holds a gating error string and also the requested key
GatingErrorAndRequestedKey ==
  /\ ResponseParsed
  /\ ErrorFieldSet
  /\ OnlyRequested
  /\ ResponseHas(flags.onlyKey)

FirstRequestCall == pc = "payload_twice" /\ pc' = "request_done"
SecondRequestCall == pc = "request_done" /\ pc' = "request_twice"

(***************************************************************************)
(* C30: GeminiProvider.BuildAPIRequest removes the model entry from the    *)
(* payload map passed in by the caller (also when it then fails, e.g. for  *)
(* a missing credential), so a second BuildAPIRequest on the same payload  *)
(* fails with the model-is-required error; BuildAPIRequest of the OpenAI,  *)
(* OpenAI-compatible and Anthropic providers leaves the payload map        *)
(* unchanged and can be repeated with the same result.                     *)
(***************************************************************************)
C30_GeminiConsumesModel ==
  [][ /\ (FirstRequestCall \/ SecondRequestCall) =>
           IF prov = "GeminiProvider"
           THEN /\ DOMAIN payload' = (DOMAIN payload) \ {"model"}
                /\ \A k \in DOMAIN payload' : payload'[k] = payload[k]
           ELSE payload' = payload
      /\ SecondRequestCall =>
           IF prov = "GeminiProvider"
           THEN /\ request' = NoRequest
                /\ reqErr' = [msg |-> "gemini: model is required"]
           ELSE /\ request' = request
                /\ reqErr' = reqErr
    ]_vars

\* the second call on a Gemini payload failed for the model, after a first call
\* that failed for the credential
C30_Witness ==
  /\ pc = "request_twice"
  /\ prov = "GeminiProvider"
  /\ NoKeyAnywhere
  /\ "model" \in DOMAIN payload2
  /\ TrimSpace(payload2.model) # <<>>
  /\ "model" \notin DOMAIN payload
  /\ reqErr = [msg |-> "gemini: model is required"]

====
